---- MODULE Spec2Model ----
(***************************************************************************)
(* Model of the Dockerfile diagnostic engine (src/src/dockerValidator.ts). *)
(* A document is a sequence of one-character strings; offsets are 0-based  *)
(* as in the source, so text.charAt(i) is charAt(text, i).                 *)
(***************************************************************************)
EXTENDS Integers, Sequences, FiniteSets, TLC

VARIABLES
    docs,         \* the documents open in the editor, validated on change
    keywords,     \* the keyword whitelist the caller passes to validate
    settings,     \* Validator.settings
    document,     \* Validator.document, kept on the instance across calls
    pc,           \* where the validate call stands ("constructed": not yet called)
    text,         \* validate: let text
    dockerfile,   \* validate: let dockerfile (directive and instructions)
    escape,       \* validate: let escape
    dc,           \* validate: let dc
    n,            \* validate: index of the instruction of the for-of loop
    i,            \* validate: let i of the lineCheck loop
    problems,     \* validate: let problems
    result,       \* the list the last finished call returned
    previous,     \* the text of the call before this one (history)
    symbols,      \* the lists the calls of parseSymbolInformation returned
    modifiableInstruction, \* a ModifiableInstruction: arguments, predicate, flags
    calls         \* the calls made on the instruction and what they returned

vars == <<docs, keywords, settings, document, pc, text, dockerfile, escape,
          dc, n, i, problems, result, previous, symbols, modifiableInstruction, calls>>

(***************************************************************************)
(* Bounds of the model.                                                    *)
(***************************************************************************)
MaxPieces == 4
MaxProblems == 8
MaxArguments == 3
MaxCalls == 3

\* null: a value that differs from every document, directive and diagnostic
Null == [null |-> TRUE]
Undefined == "undefined"

(***************************************************************************)
(* Characters and strings.                                                 *)
(***************************************************************************)
LF == "\n"
CR == "\r"
TAB == "\t"
SPACE == " "
BACKSLASH == "\\"
\* the backtick character (the lexer of TLA+ accepts no backtick in a string)
BACKTICK == "backtick"
QUOTE == "\""

LowerCaseLetters == <<"a","b","c","d","e","f","g","h","i","j","k","l","m",
                      "n","o","p","q","r","s","t","u","v","w","x","y","z">>
UpperCaseLetters == <<"A","B","C","D","E","F","G","H","I","J","K","L","M",
                      "N","O","P","Q","R","S","T","U","V","W","X","Y","Z">>

upperChar(c) ==
    IF \E k \in 1..26 : LowerCaseLetters[k] = c
    THEN UpperCaseLetters[CHOOSE k \in 1..26 : LowerCaseLetters[k] = c]
    ELSE c

lowerChar(c) ==
    IF \E k \in 1..26 : UpperCaseLetters[k] = c
    THEN LowerCaseLetters[CHOOSE k \in 1..26 : UpperCaseLetters[k] = c]
    ELSE c

toUpperCase(s) == [k \in 1..Len(s) |-> upperChar(s[k])]
toLowerCase(s) == [k \in 1..Len(s) |-> lowerChar(s[k])]

\* String.prototype.charAt: the empty string outside the text
charAt(s, k) == IF k >= 0 /\ k < Len(s) THEN s[k + 1] ELSE ""

\* String.prototype.substring(from, to), both clamped to the text
Clamp(v, lo, hi) == IF v < lo THEN lo ELSE IF v > hi THEN hi ELSE v
substring(s, from, to) ==
    LET a == Clamp(from, 0, Len(s))
        b == Clamp(to, 0, Len(s))
        lo == IF a < b THEN a ELSE b
        hi == IF a < b THEN b ELSE a
    IN  SubSeq(s, lo + 1, hi)

\* Util.isWhitespace: space, tab and the two line-break characters
isNewline(c) == c = CR \/ c = LF
isWhitespace(c) == c = SPACE \/ c = TAB \/ isNewline(c)

DIRECTIVE_ESCAPE == <<"e","s","c","a","p","e">>

(***************************************************************************)
(* TextDocument: offset <-> Position.  A Position is <<line, character>>.  *)
(***************************************************************************)
\* the offsets at which a line starts (CR, LF and CRLF end a line)
isLineStart(s, k) ==
    \/ k = 0
    \/ charAt(s, k - 1) = LF
    \/ charAt(s, k - 1) = CR /\ charAt(s, k) # LF

lineOffsets(s) == {k \in 0..Len(s) : isLineStart(s, k)}

SetMax(S) == CHOOSE x \in S : \A y \in S : y <= x
SetMin(S) == CHOOSE x \in S : \A y \in S : x <= y

positionAt(s, offset) ==
    LET o == Clamp(offset, 0, Len(s))
        ls == SetMax({k \in lineOffsets(s) : k <= o})
    IN  <<Cardinality({k \in lineOffsets(s) : k < ls}), o - ls>>

offsetAt(s, position) ==
    LET los == lineOffsets(s)
        line == position[1]
    IN  IF line >= Cardinality(los) THEN Len(s)
        ELSE IF line < 0 THEN 0
        ELSE LET lo == CHOOSE k \in los : Cardinality({m \in los : m < k}) = line
                 later == {k \in los : k > lo}
                 nxt == IF later = {} THEN Len(s) ELSE SetMin(later)
             IN  Clamp(lo + position[2], lo, nxt)

(***************************************************************************)
(* The document model the validator consumes: DockerfileParser.parse,      *)
(* Directive, Instruction and Argument.                                    *)
(***************************************************************************)
isBlank(c) == c = SPACE \/ c = TAB

\* the least offset in from..to-1 whose character is one of chars, or -1
FirstIndexOf(s, from, to, chars) ==
    LET S == {k \in from..(to - 1) : k >= 0 /\ k < Len(s) /\ s[k + 1] \in chars}
    IN  IF S = {} THEN -1 ELSE SetMin(S)

\* the least offset in from..to-1 whose character is none of chars, or -1
FirstIndexNotOf(s, from, to, chars) ==
    LET S == {k \in from..(to - 1) : k >= 0 /\ k < Len(s) /\ s[k + 1] \notin chars}
    IN  IF S = {} THEN -1 ELSE SetMin(S)

\* the offset of the first line break from k on, or the length of the text
lineEndFrom(buffer, k) ==
    LET nl == FirstIndexOf(buffer, k, Len(buffer), {CR, LF})
    IN  IF nl = -1 THEN Len(buffer) ELSE nl

\* the least offset in from..to-1 of a blank, or to
blankOrEnd(buffer, from, to) ==
    LET at == FirstIndexOf(buffer, from, to, {SPACE, TAB})
    IN  IF at = -1 THEN to ELSE at

makeDirective(buffer, hash, lineEnd, directiveStart, directiveEnd, valueStart, valueEnd) ==
    [range |-> <<positionAt(buffer, hash), positionAt(buffer, lineEnd)>>,
     nameRange |-> <<positionAt(buffer, directiveStart), positionAt(buffer, directiveEnd)>>,
     valueRange |-> <<positionAt(buffer, valueStart), positionAt(buffer, valueEnd)>>,
     name |-> substring(buffer, directiveStart, directiveEnd),
     value |-> substring(buffer, valueStart, valueEnd)]

\* the value of a directive: the first run of non-blank characters after the
\* equals sign, or everything up to the end of the line when there is none
directiveValue(buffer, hash, lineEnd, eq, directiveStart, firstOfValue) ==
    IF firstOfValue = -1
    THEN makeDirective(buffer, hash, lineEnd, directiveStart,
                       blankOrEnd(buffer, directiveStart, eq), eq + 1, lineEnd)
    ELSE makeDirective(buffer, hash, lineEnd, directiveStart,
                       blankOrEnd(buffer, directiveStart, eq), firstOfValue,
                       blankOrEnd(buffer, firstOfValue, lineEnd))

\* the name of a directive: the first run of non-blank characters after #
directiveNamed(buffer, hash, lineEnd, eq, directiveStart) ==
    IF eq = -1 \/ directiveStart = -1 THEN Null
    ELSE directiveValue(buffer, hash, lineEnd, eq, directiveStart,
                        FirstIndexNotOf(buffer, eq + 1, lineEnd, {SPACE, TAB}))

directiveOnLine(buffer, hash, lineEnd, eq) ==
    directiveNamed(buffer, hash, lineEnd, eq, FirstIndexNotOf(buffer, hash + 1, eq, {SPACE, TAB}))

directiveFrom(buffer, hash) ==
    IF hash = -1 \/ charAt(buffer, hash) # "#" THEN Null
    ELSE directiveOnLine(buffer, hash, lineEndFrom(buffer, hash + 1),
                         FirstIndexOf(buffer, hash + 1, lineEndFrom(buffer, hash + 1), {"="}))

\* the directive of line 0: "# name = value", or Null
getDirectiveSymbol(buffer) ==
    directiveFrom(buffer, FirstIndexNotOf(buffer, 0, Len(buffer), {SPACE, TAB}))

\* Directive accessors
getName(directive) == directive.name
getDirective(directive) == toLowerCase(directive.name)
getValue(directive) == directive.value
getNameRange(directive) == directive.nameRange
getValueRange(directive) == directive.valueRange
getRange(directive) == directive.range

\* the offset at which the arguments of an instruction end: the first line
\* break that no escape character precedes, or the end of the text
RECURSIVE scanArguments(_, _, _)
scanArguments(buffer, k, esc) ==
    IF k >= Len(buffer) THEN Len(buffer)
    ELSE IF isNewline(charAt(buffer, k)) THEN k
    ELSE IF charAt(buffer, k) = esc /\ charAt(buffer, k + 1) = LF
         THEN scanArguments(buffer, k + 2, esc)
    ELSE IF charAt(buffer, k) = esc /\ charAt(buffer, k + 1) = CR
         THEN scanArguments(buffer, IF charAt(buffer, k + 2) = LF THEN k + 3 ELSE k + 2, esc)
    ELSE scanArguments(buffer, k + 1, esc)

\* the keyword of an instruction, spliced across escaped line breaks
RECURSIVE scanKeyword(_, _, _, _, _, _)
scanKeyword(buffer, start, j, esc, instruction, instructionEnd) ==
    LET c == charAt(buffer, j)
        ie == IF instructionEnd = -1 THEN j ELSE instructionEnd
        made(end, next) ==
            [instruction |-> instruction,
             instructionRange |-> <<positionAt(buffer, start), positionAt(buffer, ie)>>,
             range |-> <<positionAt(buffer, start), positionAt(buffer, end)>>,
             next |-> next]
    IN  IF j >= Len(buffer) THEN made(Len(buffer), Len(buffer))
        ELSE IF c = esc /\ charAt(buffer, j + 1) = LF
             THEN scanKeyword(buffer, start, j + 2, esc, instruction, instructionEnd)
        ELSE IF c = esc /\ charAt(buffer, j + 1) = CR
             THEN scanKeyword(buffer, start,
                              IF charAt(buffer, j + 2) = LF THEN j + 3 ELSE j + 2,
                              esc, instruction, instructionEnd)
        ELSE IF isBlank(c)
             THEN LET end == scanArguments(buffer, j + 1, esc) IN made(end, end)
        ELSE IF isNewline(c) THEN made(ie, j)
        ELSE scanKeyword(buffer, start, j + 1, esc, Append(instruction, c), j + 1)

\* the instructions of the text from offset k on, in source order
RECURSIVE parseInstructions(_, _, _)
parseInstructions(buffer, k, esc) ==
    IF k >= Len(buffer) THEN <<>>
    ELSE IF isWhitespace(charAt(buffer, k)) THEN parseInstructions(buffer, k + 1, esc)
    ELSE IF charAt(buffer, k) = "#"
         THEN LET nl == FirstIndexOf(buffer, k + 1, Len(buffer), {CR, LF})
              IN  IF nl = -1 THEN <<>> ELSE parseInstructions(buffer, nl + 1, esc)
    ELSE LET ins == scanKeyword(buffer, k, k + 1, esc, <<charAt(buffer, k)>>, -1)
         IN  <<[instruction |-> ins.instruction,
                instructionRange |-> ins.instructionRange,
                range |-> ins.range]>>
             \o parseInstructions(buffer, ins.next + 1, esc)

\* DockerfileParser.parse: only a directive named escape moves the start of
\* the instructions and changes the escape character of the parser
parse(buffer) ==
    LET directive == getDirectiveSymbol(buffer)
        isEscape == directive # Null /\ getDirective(directive) = DIRECTIVE_ESCAPE
        offset == IF isEscape THEN offsetAt(buffer, getRange(directive)[2]) ELSE 0
        escapeChar == IF isEscape /\ getValue(directive) \in {<<BACKTICK>>, <<BACKSLASH>>}
                      THEN getValue(directive)[1] ELSE BACKSLASH
    IN  [directive |-> directive,
         instructions |-> parseInstructions(buffer, offset, escapeChar)]

\* Instruction accessors
getInstruction(instruction) == instruction.instruction
getKeyword(instruction) == toUpperCase(instruction.instruction)
getInstructionRange(instruction) == instruction.instructionRange
getTextContent(doc, instruction) ==
    substring(doc, offsetAt(doc, instruction.range[1]), offsetAt(doc, instruction.range[2]))

\* the argument tokens between two offsets: runs of characters that are not
\* whitespace, an escaped line break neither ending nor entering a token
RECURSIVE tokens(_, _, _, _, _)
tokens(doc, k, end, escapeChar, cur) ==
    LET c == charAt(doc, k)
        done == IF cur = Null THEN <<>>
                ELSE <<[value |-> cur.value,
                        range |-> <<positionAt(doc, cur.start),
                                    positionAt(doc, cur.last + 1)>>]>>
    IN  IF k >= end THEN done
        ELSE IF c = escapeChar /\ k + 1 < end /\ charAt(doc, k + 1) = LF
             THEN tokens(doc, k + 2, end, escapeChar, cur)
        ELSE IF c = escapeChar /\ k + 1 < end /\ charAt(doc, k + 1) = CR
             THEN tokens(doc, IF charAt(doc, k + 2) = LF THEN k + 3 ELSE k + 2,
                         end, escapeChar, cur)
        ELSE IF isWhitespace(c) THEN done \o tokens(doc, k + 1, end, escapeChar, Null)
        ELSE tokens(doc, k + 1, end, escapeChar,
                    IF cur = Null THEN [start |-> k, last |-> k, value |-> <<c>>]
                    ELSE [start |-> cur.start, last |-> k, value |-> Append(cur.value, c)])

getArgments(doc, instruction, escapeChar) ==
    tokens(doc, offsetAt(doc, instruction.instructionRange[2]),
           offsetAt(doc, instruction.range[2]), escapeChar, Null)

(***************************************************************************)
(* Validator: the diagnostic factory.  The instance is passed as this,     *)
(* a record of its fields document and settings.  A diagnostic keeps, next *)
(* to its range, the two offsets it was created with.                      *)
(***************************************************************************)
IGNORE == "IGNORE"
WARNING == "WARNING"
ERROR == "ERROR"

Error == "Error"
Warning == "Warning"

SLOT == "${0}"

dockerProblems ==
    [directiveUnknown |-> <<"Unknown directive: ", SLOT>>,
     directiveEscapeInvalid |-> <<"invalid ESCAPE '", SLOT, "'. Must be ", BACKTICK, " or \\">>,
     noSourceImage |-> <<"No source image provided with ", BACKTICK, "FROM", BACKTICK>>,
     invalidPort |-> <<"Invalid containerPort: ", SLOT>>,
     invalidStopSignal |-> <<"Invalid stop signal">>,
     instructionExtraArgument |-> <<"Instruction has an extra argument">>,
     instructionMissingArgument |-> <<"Instruction has no arguments">>,
     instructionUnknown |-> <<"Unknown instruction: ", SLOT>>,
     instructionCasing |-> <<"Instructions should be written in uppercase letters">>,
     deprecatedMaintainer |-> <<"MAINTAINER has been deprecated">>,
     unexpectedToken |-> <<"Unexpected token">>]

\* a property read of the table: undefined for a key it does not hold
problemText(key) ==
    IF key \in DOMAIN dockerProblems THEN dockerProblems[key] ELSE <<Undefined>>

\* text.replace("${0}", variable): the first slot only
formatMessage(msg, variable) ==
    LET at == FirstIndexOf(msg, 0, Len(msg), {SLOT})
    IN  IF at = -1 THEN msg
        ELSE SubSeq(msg, 1, at) \o variable \o SubSeq(msg, at + 2, Len(msg))

getDiagnosticMessage_DirectiveUnknown(directive) ==
    formatMessage(problemText("directiveUnknown"), directive)
getDiagnosticMessage_DirectiveEscapeInvalid(value) ==
    formatMessage(problemText("directiveEscapeInvalid"), value)
getDiagnosticMessage_NoSourceImage == problemText("noSourceImage")
getDiagnosticMessage_InvalidPort(port) ==
    formatMessage(problemText("invalidPort"), port)
getDiagnosticMessage_InvalidStopsignal == problemText("invalidStopsignal")
getDiagnosticMessage_InstructionExtraArgument == problemText("instructionExtraArgument")
getDiagnosticMessage_InstructionMissingArgument == problemText("instructionMissingArgument")
getDiagnosticMessage_InstructionUnknown(instruction) ==
    formatMessage(problemText("instructionUnknown"), instruction)
getDiagnosticMessage_InstructionCasing == problemText("instructionCasing")
getDiagnosticMessage_DeprecatedMaintainer == problemText("deprecatedMaintainer")
getDiagnosticMessage_UnexpectedToken == problemText("unexpectedToken")

createDiagnostic(this, severity, start, end, description, code) ==
    [range |-> <<positionAt(this.document, start), positionAt(this.document, end)>>,
     message |-> description,
     severity |-> severity,
     code |-> IF code = Undefined \/ code = "DEFAULT" THEN "DEFAULT" ELSE code,
     source |-> "dockerfile-lsp",
     start |-> start,
     end |-> end]

createError(this, start, end, description, code) ==
    createDiagnostic(this, Error, start, end, description, code)

\* a variant that has the severity of an error
createWarningAsError(this, start, end, description, code) ==
    createDiagnostic(this, Error, start, end, description, code)

createWarning(this, start, end, description, code) ==
    createDiagnostic(this, Warning, start, end, description, code)

createUnknownDirective(this, start, end, directive) ==
    createError(this, start, end, getDiagnosticMessage_DirectiveUnknown(directive),
                "UNKNOWN_DIRECTIVE")

createInvalidEscapeDirective(this, start, end, value) ==
    createError(this, start, end, getDiagnosticMessage_DirectiveEscapeInvalid(value),
                "INVALID_ESCAPE_DIRECTIVE")

createInvalidPort(this, start, end, port) ==
    createError(this, start, end, getDiagnosticMessage_InvalidPort(port), "INVALID_PORT")

createInvalidStopSignal(this, start, end) ==
    createError(this, start, end, getDiagnosticMessage_InvalidStopsignal,
                "INVALID_STOPSIGNAL")

createMissingArgument(this, start, end) ==
    createError(this, start, end, getDiagnosticMessage_InstructionMissingArgument,
                "MISSING_ARGUMENT")

createExtraArgument(this, start, end) ==
    createError(this, start, end, getDiagnosticMessage_InstructionExtraArgument,
                "EXTRA_ARGUMENT")

createUnexpectedToken(this, start, end) ==
    createError(this, start, end, getDiagnosticMessage_UnexpectedToken, Undefined)

createNoSourceImage(this, start, end) ==
    createError(this, start, end, getDiagnosticMessage_NoSourceImage, "NO_SOURCE_IMAGE")

\* a variant that leaves the slot of the message unfilled
createUnknownInstructionUnformatted(this, start, end, instruction) ==
    createError(this, start, end, problemText("instructionUnknown"), "UNKNOWN_INSTRUCTION")

createUnknownInstruction(this, start, end, instruction) ==
    createError(this, start, end, getDiagnosticMessage_InstructionUnknown(instruction),
                "UNKNOWN_INSTRUCTION")

createUppercaseInstruction(this, start, end) ==
    createWarning(this, start, end, getDiagnosticMessage_InstructionCasing, "LOWERCASE")

\* a variant that has no case for IGNORE
createMaintainerDeprecatedAlways(this, start, end) ==
    createDiagnostic(this,
                     IF this.settings.deprecatedMaintainer = ERROR THEN Error ELSE Warning,
                     start, end, getDiagnosticMessage_DeprecatedMaintainer,
                     "DEPRECATED_MAINTAINER")

\* null when the setting is neither ERROR nor WARNING
createMaintainerDeprecated(this, start, end) ==
    IF this.settings.deprecatedMaintainer = ERROR
    THEN createDiagnostic(this, Error, start, end,
                          getDiagnosticMessage_DeprecatedMaintainer, "DEPRECATED_MAINTAINER")
    ELSE IF this.settings.deprecatedMaintainer = WARNING
    THEN createDiagnostic(this, Warning, start, end,
                          getDiagnosticMessage_DeprecatedMaintainer, "DEPRECATED_MAINTAINER")
    ELSE Null

(***************************************************************************)
(* Validator: escape directive and the checks on the document model.       *)
(* problems.push(d) is Append; an operator returns what it pushes.         *)
(***************************************************************************)
shouldSkipNewline(txt, offset, esc) ==
    /\ charAt(txt, offset) = esc
    /\ offset # Len(txt) - 1
    /\ (charAt(txt, offset + 1) = CR \/ charAt(txt, offset + 1) = LF)

\* a variant that takes any value of one character for the escape character
parseDirectiveAnyCharacter(this, df, doc) ==
    LET directive == df.directive
        directiveName == getDirective(directive)
        value == getValue(directive)
        nameRange == getNameRange(directive)
        valueRange == getValueRange(directive)
    IN  IF directive = Null
        THEN [escape |-> BACKSLASH, dc |-> 0, pushed |-> <<>>]
        ELSE [escape |-> IF Len(value) = 1 THEN value[1] ELSE BACKSLASH,
              dc |-> offsetAt(doc, getRange(directive)[2]),
              pushed |->
                IF directiveName # DIRECTIVE_ESCAPE
                THEN <<createUnknownDirective(this, offsetAt(doc, nameRange[1]),
                                              offsetAt(doc, nameRange[2]), directiveName)>>
                ELSE IF value # <<BACKSLASH>> /\ value # <<BACKTICK>> /\ value # <<>>
                THEN <<createInvalidEscapeDirective(this, offsetAt(doc, valueRange[1]),
                                                    offsetAt(doc, valueRange[2]), value)>>
                ELSE <<>>]

\* a variant that takes the value of a directive named escape only
parseDirectiveEscapeOnly(this, df, doc) ==
    LET directive == df.directive
        directiveName == getDirective(directive)
        value == getValue(directive)
        nameRange == getNameRange(directive)
        valueRange == getValueRange(directive)
    IN  IF directive = Null
        THEN [escape |-> BACKSLASH, dc |-> 0, pushed |-> <<>>]
        ELSE [escape |-> IF directiveName = DIRECTIVE_ESCAPE
                            /\ (value = <<BACKSLASH>> \/ value = <<BACKTICK>>)
                         THEN value[1] ELSE BACKSLASH,
              dc |-> offsetAt(doc, getRange(directive)[2]),
              pushed |->
                IF directiveName # DIRECTIVE_ESCAPE
                THEN <<createUnknownDirective(this, offsetAt(doc, nameRange[1]),
                                              offsetAt(doc, nameRange[2]), directiveName)>>
                ELSE IF value # <<BACKSLASH>> /\ value # <<BACKTICK>> /\ value # <<>>
                THEN <<createInvalidEscapeDirective(this, offsetAt(doc, valueRange[1]),
                                                    offsetAt(doc, valueRange[2]), value)>>
                ELSE <<>>]

parseDirective(this, df, doc) ==
    LET directive == df.directive
        directiveName == getDirective(directive)
        value == getValue(directive)
        nameRange == getNameRange(directive)
        valueRange == getValueRange(directive)
    IN  IF directive = Null
        THEN [escape |-> BACKSLASH, dc |-> 0, pushed |-> <<>>]
        ELSE [escape |-> IF value = <<BACKSLASH>> \/ value = <<BACKTICK>>
                         THEN value[1] ELSE BACKSLASH,
              dc |-> offsetAt(doc, getRange(directive)[2]),
              pushed |->
                IF directiveName # DIRECTIVE_ESCAPE
                THEN <<createUnknownDirective(this, offsetAt(doc, nameRange[1]),
                                              offsetAt(doc, nameRange[2]), directiveName)>>
                ELSE IF value # <<BACKSLASH>> /\ value # <<BACKTICK>> /\ value # <<>>
                THEN <<createInvalidEscapeDirective(this, offsetAt(doc, valueRange[1]),
                                                    offsetAt(doc, valueRange[2]), value)>>
                ELSE <<>>]

\* a variant that finds an argument when an escaped line break ends the text
RECURSIVE argumentsMissingUnlessCut(_, _, _)
argumentsMissingUnlessCut(args, k, escapeChar) ==
    IF k >= Len(args) THEN TRUE
    ELSE IF isWhitespace(charAt(args, k))
         THEN argumentsMissingUnlessCut(args, k + 1, escapeChar)
    ELSE IF charAt(args, k) = escapeChar
         THEN IF charAt(args, k + 1) = CR \/ charAt(args, k + 1) = LF
              THEN k + 2 < Len(args) /\ argumentsMissingUnlessCut(args, k + 2, escapeChar)
              ELSE FALSE
    ELSE FALSE

\* a variant that takes no escape character for an argument
RECURSIVE argumentsMissingEscape(_, _, _)
argumentsMissingEscape(args, k, escapeChar) ==
    IF k >= Len(args) THEN TRUE
    ELSE IF isWhitespace(charAt(args, k)) \/ charAt(args, k) = escapeChar
         THEN argumentsMissingEscape(args, k + 1, escapeChar)
    ELSE FALSE

\* the for loop of checkArguments: TRUE when missing is still true at its end
RECURSIVE argumentsMissing(_, _, _)
argumentsMissing(args, k, escapeChar) ==
    IF k >= Len(args) THEN TRUE
    ELSE IF isWhitespace(charAt(args, k)) THEN argumentsMissing(args, k + 1, escapeChar)
    ELSE IF charAt(args, k) = escapeChar
         THEN IF charAt(args, k + 1) = CR \/ charAt(args, k + 1) = LF
              THEN argumentsMissing(args, k + 2, escapeChar)
              ELSE FALSE
    ELSE FALSE

checkArguments(this, doc, escapeChar, instruction) ==
    LET range == getInstructionRange(instruction)
        args == substring(getTextContent(doc, instruction),
                          Len(getInstruction(instruction)),
                          Len(getTextContent(doc, instruction)))
    IN  IF argumentsMissing(args, 0, escapeChar)
        THEN [found |-> FALSE,
              pushed |-> <<createMissingArgument(this, offsetAt(doc, range[1]),
                                                 offsetAt(doc, range[2]))>>]
        ELSE [found |-> TRUE, pushed |-> <<>>]

isDigit(c) == c \in {"0", "1", "2", "3", "4", "5", "6", "7", "8", "9"}

\* the predicates handed to checkSingleArgument
validateAny(argument) == TRUE

\* a variant that looks at the first character only
validateStopSignalFirstCharacter(argument) ==
    \/ substring(argument, 0, 3) = <<"S", "I", "G">>
    \/ Len(argument) = 0
    \/ isDigit(argument[1])

validateStopSignal(argument) ==
    \/ substring(argument, 0, 3) = <<"S", "I", "G">>
    \/ \A k \in 1..Len(argument) : isDigit(argument[k])

\* a variant that does not look at the last character
validatePortLeadingOnly(argument) ==
    /\ \A k \in 1..Len(argument) : argument[k] = "-" \/ isDigit(argument[k])
    /\ charAt(argument, 0) # "-"

validatePort(argument) ==
    /\ \A k \in 1..Len(argument) : argument[k] = "-" \/ isDigit(argument[k])
    /\ charAt(argument, 0) # "-"
    /\ charAt(argument, Len(argument) - 1) # "-"

\* a function value is passed by its name: the call validate(argument)
callValidate(validate, argument) ==
    IF validate = "validateStopSignal" THEN validateStopSignal(argument)
    ELSE IF validate = "validatePort" THEN validatePort(argument)
    ELSE validateAny(argument)

\* the call createDiagnostic(start, end, value); FROM, WORKDIR and USER pass
\* no function
callCreateDiagnostic(this, createDiagnosticName, start, end, value) ==
    IF createDiagnosticName = "createInvalidStopSignal"
    THEN createInvalidStopSignal(this, start, end)
    ELSE IF createDiagnosticName = "createInvalidPort"
    THEN createInvalidPort(this, start, end, value)
    ELSE [typeError |-> "createDiagnostic is not a function"]

\* the for-of loop of checkSingleArgument: one diagnostic per failing token
RECURSIVE checkEachArgument(_, _, _, _, _, _)
checkEachArgument(this, doc, args, k, validate, createDiagnosticName) ==
    IF k > Len(args) THEN <<>>
    ELSE (IF ~callValidate(validate, args[k].value)
          THEN <<callCreateDiagnostic(this, createDiagnosticName,
                                      offsetAt(doc, args[k].range[1]),
                                      offsetAt(doc, args[k].range[2]), args[k].value)>>
          ELSE <<>>)
         \o checkEachArgument(this, doc, args, k + 1, validate, createDiagnosticName)

\* a variant that reports every token after the first
extraArgumentEach(this, doc, args) ==
    [k \in 1..(Len(args) - 1) |->
        createExtraArgument(this, offsetAt(doc, args[k + 1].range[1]),
                            offsetAt(doc, args[k + 1].range[2]))]

\* checkSingleArgument, singleOnly: the test for a second token
extraArgument(this, doc, args) ==
    IF Len(args) > 1
    THEN <<createExtraArgument(this, offsetAt(doc, args[2].range[1]),
                               offsetAt(doc, args[2].range[2]))>>
    ELSE <<>>

\* checkSingleArgument on the tokens of the instruction
checkSingleArguments(this, doc, args, singleOnly, validate, createDiagnosticName) ==
    IF Len(args) = 0 THEN <<>>
    ELSE IF singleOnly
    THEN (IF ~callValidate(validate, args[1].value)
          THEN <<callCreateDiagnostic(this, createDiagnosticName,
                                      offsetAt(doc, args[1].range[1]),
                                      offsetAt(doc, args[1].range[2]), Undefined)>>
          ELSE <<>>)
         \o extraArgument(this, doc, args)
    ELSE checkEachArgument(this, doc, args, 1, validate, createDiagnosticName)

checkSingleArgument(this, doc, escapeChar, instruction, singleOnly, validate, createDiagnosticName) ==
    checkSingleArguments(this, doc, getArgments(doc, instruction, escapeChar),
                         singleOnly, validate, createDiagnosticName)

\* the body of the for-of loop of validate, for one instruction
\* a variant whose branch of the casing warning goes on to check the arguments
checkInstructionFallThrough(this, doc, kws, escapeChar, instruction) ==
    LET keyword == getKeyword(instruction)
        range == getInstructionRange(instruction)
        start == offsetAt(doc, range[1])
        end == offsetAt(doc, range[2])
    IN  IF keyword \notin kws
        THEN <<createUnknownInstruction(this, start, end, keyword)>>
        ELSE IF keyword # getInstruction(instruction)
        THEN <<createUppercaseInstruction(this, start, end)>>
             \o checkArguments(this, doc, escapeChar, instruction).pushed
        ELSE checkArguments(this, doc, escapeChar, instruction).pushed

checkInstruction(this, doc, kws, escapeChar, instruction) ==
    LET keyword == getKeyword(instruction)
        range == getInstructionRange(instruction)
        start == offsetAt(doc, range[1])
        end == offsetAt(doc, range[2])
        deprecated == createMaintainerDeprecated(this, start, start)
        maintainer == IF keyword = <<"M","A","I","N","T","A","I","N","E","R">>
                         /\ deprecated # Null
                      THEN <<deprecated>> ELSE <<>>
        checked == checkArguments(this, doc, escapeChar, instruction)
        single ==
            IF keyword \in {<<"F","R","O","M">>, <<"W","O","R","K","D","I","R">>,
                            <<"U","S","E","R">>}
            THEN checkSingleArgument(this, doc, escapeChar, instruction, TRUE,
                                     "validateAny", Undefined)
            ELSE IF keyword = <<"S","T","O","P","S","I","G","N","A","L">>
            THEN checkSingleArgument(this, doc, escapeChar, instruction, TRUE,
                                     "validateStopSignal", "createInvalidStopSignal")
            ELSE IF keyword = <<"E","X","P","O","S","E">>
            THEN checkSingleArgument(this, doc, escapeChar, instruction, FALSE,
                                     "validatePort", "createInvalidPort")
            ELSE <<>>
    IN  IF keyword \notin kws
        THEN <<createUnknownInstruction(this, start, end, keyword)>>
        ELSE IF keyword # getInstruction(instruction)
        THEN <<createUppercaseInstruction(this, start, end)>>
        ELSE maintainer \o checked.pushed \o (IF checked.found THEN single ELSE <<>>)

\* a variant that reports the missing FROM at the start of the text always
checkSourceImageAtStart(this, doc, instructions) ==
    IF Len(instructions) = 0 \/ getKeyword(instructions[1]) # <<"F","R","O","M">>
    THEN <<createNoSourceImage(this, 0, 0)>>
    ELSE <<>>

\* validate, from the NO_SOURCE_IMAGE test: what it pushes before the loop
checkSourceImage(this, doc, instructions) ==
    IF Len(instructions) = 0
    THEN <<createNoSourceImage(this, 0, 0)>>
    ELSE IF getKeyword(instructions[1]) # <<"F","R","O","M">>
    THEN <<createNoSourceImage(this,
                               offsetAt(doc, getInstructionRange(instructions[1])[1]),
                               offsetAt(doc, getInstructionRange(instructions[1])[2]))>>
    ELSE <<>>

(***************************************************************************)
(* Validator: the JSON array of a VOLUME instruction.                      *)
(***************************************************************************)
\* the offset the loop variable holds after an escaped line break at k was
\* skipped (k++ and, for CRLF, one more), before the increment of continue
afterSkippedNewline(txt, k) ==
    IF charAt(txt, k + 1) = CR /\ charAt(txt, k + 2) = LF THEN k + 2 ELSE k + 1

\* the for loop of parseJSON from offset k on, st holding its variables
RECURSIVE parseJSONLoop(_, _, _, _, _)
parseJSONLoop(this, esc, txt, k, st) ==
    LET c == charAt(txt, k)
        token(at) == createUnexpectedToken(this, at, at + 1)
    IN  IF k >= Len(txt)
        THEN [jump |-> st.last + 1,
              pushed |-> IF ~st.flagged /\ (st.inString \/ ~st.end)
                         THEN Append(st.pushed, token(st.last)) ELSE st.pushed]
        ELSE IF ~st.inString /\ shouldSkipNewline(txt, k, esc)
        THEN parseJSONLoop(this, esc, txt, afterSkippedNewline(txt, k) + 1, st)
        ELSE IF c = QUOTE
        THEN IF st.expectComma /\ ~st.flagged
             THEN [jump |-> k, pushed |-> Append(st.pushed, token(k))]
             ELSE parseJSONLoop(this, esc, txt, k + 1,
                                [st EXCEPT !.inString = ~st.inString, !.last = k,
                                           !.expectComma = st.inString])
        ELSE IF c = SPACE \/ c = TAB
        THEN parseJSONLoop(this, esc, txt, k + 1, st)
        ELSE IF c = "]"
        THEN parseJSONLoop(this, esc, txt, k + 1,
                           [st EXCEPT !.end = st.end \/ ~st.inString, !.last = k])
        ELSE IF c = CR \/ c = LF
        THEN [jump |-> k,
              pushed |-> IF ~st.end /\ ~st.flagged
                         THEN Append(st.pushed, token(st.last)) ELSE st.pushed]
        ELSE IF c = ","
        THEN parseJSONLoop(this, esc, txt, k + 1,
                           [st EXCEPT !.expectComma = FALSE, !.last = k])
        ELSE IF ~st.inString /\ ~st.flagged
        THEN parseJSONLoop(this, esc, txt, k + 1,
                           [st EXCEPT !.last = k, !.flagged = TRUE,
                                      !.pushed = Append(st.pushed, token(k))])
        ELSE parseJSONLoop(this, esc, txt, k + 1, [st EXCEPT !.last = k])

\* a variant whose loop starts with something flagged already
parseJSONFlagged(this, esc, offset, txt) ==
    parseJSONLoop(this, esc, txt, offset + 1,
                  [inString |-> FALSE, end |-> FALSE, last |-> -1,
                   expectComma |-> FALSE, flagged |-> TRUE, pushed |-> <<>>])

parseJSON(this, esc, offset, txt) ==
    parseJSONLoop(this, esc, txt, offset + 1,
                  [inString |-> FALSE, end |-> FALSE, last |-> -1,
                   expectComma |-> FALSE, flagged |-> FALSE, pushed |-> <<>>])

\* the for loop of parseVOLUME from offset k on
RECURSIVE parseVOLUMELoop(_, _, _, _, _)
parseVOLUMELoop(this, esc, txt, k, json) ==
    IF k >= Len(txt) THEN [jump |-> Len(txt), pushed |-> <<>>]
    ELSE IF shouldSkipNewline(txt, k, esc)
    THEN parseVOLUMELoop(this, esc, txt, afterSkippedNewline(txt, k) + 1, json)
    ELSE IF charAt(txt, k) = CR \/ charAt(txt, k) = LF
    THEN [jump |-> k, pushed |-> <<>>]
    ELSE IF charAt(txt, k) = "[" /\ json
    THEN parseJSON(this, esc, k, txt)
    ELSE parseVOLUMELoop(this, esc, txt, k + 1,
                         json /\ (charAt(txt, k) = SPACE \/ charAt(txt, k) = TAB))

parseVOLUME(this, esc, lineStart, offset, txt) ==
    parseVOLUMELoop(this, esc, txt, offset + 1, TRUE)

(***************************************************************************)
(* Validator: one iteration of the lineCheck loop of validate.             *)
(***************************************************************************)
\* the loops over k that look for the end of the line: the offset of the
\* line break, or -1 at the end of the text; crlf tells whether the loop
\* skips the LF of an escaped CRLF
\* a variant that finds no line break: the scan stops at the word
skipLineNever(txt, esc, k, crlf) == -1

RECURSIVE skipLine(_, _, _, _)
skipLine(txt, esc, k, crlf) ==
    IF k >= Len(txt) THEN -1
    ELSE IF shouldSkipNewline(txt, k, esc)
    THEN skipLine(txt, esc, (IF crlf THEN afterSkippedNewline(txt, k) ELSE k + 1) + 1, crlf)
    ELSE IF charAt(txt, k) = CR \/ charAt(txt, k) = LF THEN k
    ELSE skipLine(txt, esc, k + 1, crlf)

\* the for loop over j that collects the first word of the line
RECURSIVE firstWord(_, _, _, _, _)
firstWord(txt, esc, j, start, instruction) ==
    LET skipped == afterSkippedNewline(txt, j)
        atEnd == j = Len(txt) - 1
    IN  IF j >= Len(txt) THEN [kind |-> "none"]
        ELSE IF shouldSkipNewline(txt, j, esc)
        THEN IF skipped = Len(txt) - 1 THEN [kind |-> "return"]
             ELSE firstWord(txt, esc, skipped + 1, skipped + 1,
                            instruction \o substring(txt, start, j))
        ELSE IF isWhitespace(charAt(txt, j)) \/ atEnd
        THEN IF atEnd THEN [kind |-> "return"]
             ELSE [kind |-> "word", j |-> j,
                   uppercaseInstruction |->
                       toUpperCase(instruction \o substring(txt, start, j))]
        ELSE firstWord(txt, esc, j + 1, start, instruction)

\* one iteration from offset k: kind "continue" with the value assigned to
\* i before continue lineCheck, or kind "return"; pushed is what it pushes
lineCheck(this, kws, esc, txt, k) ==
    LET nl == FirstIndexOf(txt, k + 1, Len(txt), {CR, LF})
        word == firstWord(txt, esc, k + 1, k, <<>>)
        goOn(to) == [kind |-> "continue", i |-> to, pushed |-> <<>>]
        stop == [kind |-> "return", i |-> k, pushed |-> <<>>]
        toLineEnd(crlf) ==
            LET e == skipLine(txt, esc, word.j + 1, crlf)
            IN  IF e = -1 THEN stop ELSE goOn(e)
        volume == parseVOLUME(this, esc, k, word.j, txt)
    IN  IF isWhitespace(charAt(txt, k)) THEN goOn(k)
        ELSE IF charAt(txt, k) = "#" THEN (IF nl = -1 THEN stop ELSE goOn(nl))
        ELSE IF word.kind = "none" THEN goOn(k)
        ELSE IF word.kind = "return" THEN stop
        ELSE IF word.uppercaseInstruction \in
                  {<<"M","A","I","N","T","A","I","N","E","R">>, <<"F","R","O","M">>,
                   <<"E","X","P","O","S","E">>, <<"S","T","O","P","S","I","G","N","A","L">>,
                   <<"U","S","E","R">>, <<"W","O","R","K","D","I","R">>}
        THEN toLineEnd(FALSE)
        ELSE IF word.uppercaseInstruction = <<"V","O","L","U","M","E">>
        THEN [kind |-> "continue", i |-> volume.jump, pushed |-> volume.pushed]
        ELSE IF word.uppercaseInstruction \notin kws THEN toLineEnd(FALSE)
        ELSE toLineEnd(TRUE)

(***************************************************************************)
(* DockerSymbols: the symbols of the outline of a document.                *)
(***************************************************************************)
\* SymbolKind of vscode-languageserver, by name
Property == "Property"
Function == "Function"

createSymbolInformation(name, textDocumentURI, range, kind) ==
    [name |-> name,
     location |-> [uri |-> textDocumentURI, range |-> range],
     kind |-> kind]

\* the for-of loop over the instructions from the k-th on
RECURSIVE instructionSymbols(_, _, _)
instructionSymbols(instructions, k, textDocumentURI) ==
    IF k > Len(instructions) THEN <<>>
    ELSE <<createSymbolInformation(getInstruction(instructions[k]), textDocumentURI,
                                   getInstructionRange(instructions[k]), Function)>>
         \o instructionSymbols(instructions, k + 1, textDocumentURI)

\* a variant that has a symbol for the escape directive only
parseSymbolInformationEscapeOnly(doc, textDocumentURI) ==
    LET df == parse(doc)
        directive == df.directive
    IN  (IF directive # Null /\ getDirective(directive) = DIRECTIVE_ESCAPE
         THEN <<createSymbolInformation(getName(directive), textDocumentURI,
                                        getNameRange(directive), Property)>>
         ELSE <<>>)
        \o instructionSymbols(df.instructions, 1, textDocumentURI)

parseSymbolInformation(doc, textDocumentURI) ==
    LET df == parse(doc)
        directive == df.directive
    IN  (IF directive # Null
         THEN <<createSymbolInformation(getName(directive), textDocumentURI,
                                        getNameRange(directive), Property)>>
         ELSE <<>>)
        \o instructionSymbols(df.instructions, 1, textDocumentURI)

(***************************************************************************)
(* ModifiableInstruction: the flags and the arguments of an instruction.   *)
(***************************************************************************)
\* the field flags before and after its initialisation: !this.flags holds
\* of the first only, an empty array being truthy
NoFlags == [defined |-> FALSE, list |-> <<>>]
Flags(list) == [defined |-> TRUE, list |-> list]

\* the values of stopSearchingForFlags, the abstract method, by name: it
\* stops at no argument, at the first argument that is no flag, at CMD and
\* NONE, or at the first argument
stopSearchingForFlags(this, value) ==
    IF this.stop = "never" THEN FALSE
    ELSE IF this.stop = "notFlag" THEN substring(value, 0, 2) # <<"-", "-">>
    ELSE IF this.stop = "command"
    THEN toUpperCase(value) \in {<<"C", "M", "D">>, <<"N", "O", "N", "E">>}
    ELSE TRUE

\* Range.create
RangeCreate(startLine, startCharacter, endLine, endCharacter) ==
    <<<<startLine, startCharacter>>, <<endLine, endCharacter>>>>

\* new Flag(...) for an argument that starts with two dashes
newFlag(arg) ==
    LET value == arg.value
        range == arg.range
        index == FirstIndexOf(value, 0, Len(value), {"="})
    IN  IF index = -1
        THEN [value |-> value, range |-> range,
              name |-> substring(value, 2, Len(value)),
              nameRange |-> RangeCreate(range[1][1], range[1][2] + 2,
                                        range[2][1], range[2][2]),
              flagValue |-> Null, flagValueRange |-> Null]
        ELSE IF index = Len(value) - 1
        THEN [value |-> value, range |-> range,
              name |-> substring(value, 2, index),
              nameRange |-> RangeCreate(range[1][1], range[1][2] + 2,
                                        range[2][1], range[2][2] - 1),
              flagValue |-> <<>>,
              flagValueRange |-> RangeCreate(range[2][1], range[2][2],
                                             range[2][1], range[2][2])]
        ELSE [value |-> value, range |-> range,
              name |-> substring(value, 2, index),
              nameRange |-> RangeCreate(range[1][1], range[1][2] + 2,
                                        range[1][1], range[1][2] + index),
              flagValue |-> substring(value, index + 1, Len(value)),
              flagValueRange |-> RangeCreate(range[1][1], range[1][2] + index + 1,
                                             range[2][1], range[2][2])]

\* the for-of loop of getFlags from the k-th argument on: this.flags at the
\* return
RECURSIVE flagsLoop(_, _, _, _)
flagsLoop(this, args, k, flags) ==
    IF k > Len(args) THEN flags
    ELSE IF stopSearchingForFlags(this, args[k].value) THEN flags
    ELSE IF substring(args[k].value, 0, 2) = <<"-", "-">>
    THEN flagsLoop(this, args, k + 1, Append(flags, newFlag(args[k])))
    ELSE flagsLoop(this, args, k + 1, flags)

\* args.shift(), count times
shift(args, count) ==
    IF count >= Len(args) THEN <<>> ELSE SubSeq(args, count + 1, Len(args))

\* a variant of getFlags that computes the list at every call
getFlagsEveryCall(this) ==
    LET list == flagsLoop(this, this.arguments, 1, this.flags.list)
    IN  [this |-> [this EXCEPT !.flags = Flags(list)], returned |-> list]

\* getFlags and getArguments call each other: each gives the instruction
\* after the call and what the call returned
RECURSIVE getFlags(_)
RECURSIVE getArguments(_)

getFlags(this) ==
    IF ~this.flags.defined
    THEN LET initialised == [this EXCEPT !.flags = Flags(<<>>)]
             list == flagsLoop(initialised, getArguments(initialised).returned, 1, <<>>)
         IN  [this |-> [this EXCEPT !.flags = Flags(list)], returned |-> list]
    ELSE [this |-> this, returned |-> this.flags.list]

getArguments(this) ==
    LET args == this.arguments
        got == getFlags(this)
        flags == got.returned
    IN  [this |-> got.this,
         returned |-> IF Len(flags) = 0 THEN args ELSE shift(args, Len(flags))]

(***************************************************************************)
(* validate as one function: what a call on a Validator that has validated *)
(* nothing before returns.                                                 *)
(***************************************************************************)
\* the for-of loop over the instructions from the k-th on
RECURSIVE checkInstructions(_, _, _, _, _, _)
checkInstructions(this, doc, kws, escapeChar, instructions, k) ==
    IF k > Len(instructions) THEN <<>>
    ELSE checkInstruction(this, doc, kws, escapeChar, instructions[k])
         \o checkInstructions(this, doc, kws, escapeChar, instructions, k + 1)

\* the lineCheck loop from offset k on
RECURSIVE lineChecks(_, _, _, _, _)
lineChecks(this, kws, esc, txt, k) ==
    IF k >= Len(txt) THEN <<>>
    ELSE IF lineCheck(this, kws, esc, txt, k).kind = "continue"
    THEN lineCheck(this, kws, esc, txt, k).pushed
         \o lineChecks(this, kws, esc, txt, lineCheck(this, kws, esc, txt, k).i + 1)
    ELSE lineCheck(this, kws, esc, txt, k).pushed

validateParsed(this, kws, doc, df, parsed) ==
    parsed.pushed
    \o checkSourceImage(this, doc, df.instructions)
    \o checkInstructions(this, doc, kws, parsed.escape, df.instructions, 1)
    \o lineChecks(this, kws, parsed.escape, doc, parsed.dc)

validate(sett, kws, doc) ==
    validateParsed([document |-> doc, settings |-> sett], kws, doc, parse(doc),
                   parseDirective([document |-> doc, settings |-> sett], parse(doc), doc))

(***************************************************************************)
(* The documents the editor holds.  A text is a concatenation of at most   *)
(* MaxPieces pieces.                                                       *)
(***************************************************************************)
RECURSIVE Concat(_)
Concat(ps) == IF ps = <<>> THEN <<>> ELSE Head(ps) \o Concat(Tail(ps))

TextsOver(Pieces, max) ==
    {Concat(ps) : ps \in UNION {[1..len -> Pieces] : len \in 0..max}}

FROM == <<"F","R","O","M">>
VOLUME == <<"V","O","L","U","M","E">>
RUN == <<"R","U","N">>
USER == <<"U","S","E","R">>
WORKDIR == <<"W","O","R","K","D","I","R">>
STOPSIGNAL == <<"S","T","O","P","S","I","G","N","A","L">>
EXPOSE == <<"E","X","P","O","S","E">>
MAINTAINER == <<"M","A","I","N","T","A","I","N","E","R">>

\* the whitelist the language server passes: the instructions of Docker
KEYWORDS ==
    {<<"A","D","D">>, <<"A","R","G">>, <<"C","M","D">>, <<"C","O","P","Y">>,
     <<"E","N","T","R","Y","P","O","I","N","T">>, <<"E","N","V">>, EXPOSE, FROM,
     <<"H","E","A","L","T","H","C","H","E","C","K">>, <<"L","A","B","E","L">>,
     MAINTAINER, <<"O","N","B","U","I","L","D">>, RUN, <<"S","H","E","L","L">>,
     STOPSIGNAL, USER, VOLUME, WORKDIR}

\* the pieces of the documents of Spec: instructions and their arguments
Pieces == {FROM, <<"X">>, <<SPACE>>, <<LF>>, <<BACKSLASH>>, <<SPACE, "a">>}

\* the URI the editor passes with the document
URI == "uri://host/Dockerfile.sample"

\* the values of the arguments of the instructions of SpecModifiable
ArgumentValues ==
    {<<"-", "-", "a">>, <<"-", "-", "a", "=">>, <<"-", "-", "a", "=", "b">>,
     <<"a">>, <<"C", "M", "D">>}

\* the arguments of an instruction of the given values, on line 0, one space
\* apart, after a keyword of one character
RECURSIVE makeArguments(_, _)
makeArguments(values, character) ==
    IF values = <<>> THEN <<>>
    ELSE <<[value |-> Head(values),
            range |-> RangeCreate(0, character, 0, character + Len(Head(values)))]>>
         \o makeArguments(Tail(values), character + Len(Head(values)) + 1)

\* the sequences of at most max values
RECURSIVE ValuesUpTo(_)
ValuesUpTo(max) ==
    IF max = 0 THEN {<<>>}
    ELSE ValuesUpTo(max - 1)
         \cup {Append(v, a) : v \in {w \in ValuesUpTo(max - 1) : Len(w) = max - 1},
                               a \in ArgumentValues}

\* no instruction is looked at
NoInstruction == [arguments |-> <<>>, stop |-> "never", flags |-> NoFlags]

\* the other documents open next to the one edited in SpecHistory
OtherDocuments ==
    {FROM \o <<SPACE, "a">>,
     <<"#","e","s","c","a","p","e","=", BACKTICK, LF>> \o <<"X", LF, LF>> \o USER}

(***************************************************************************)
(* The state machine: a Validator is constructed, then validate is called  *)
(* on the open documents, one call at a time.                              *)
(***************************************************************************)
This == [document |-> document, settings |-> settings]

\* the list keeps its first MaxProblems entries
Bounded(list) == IF Len(list) > MaxProblems THEN SubSeq(list, 1, MaxProblems) ELSE list

\* the field document of a Validator that has validated nothing yet: no text
NoDocument == <<Undefined>>

InitWith(Documents, Whitelists, Settings) ==
    /\ docs \in Documents
    /\ keywords \in Whitelists
    /\ settings \in Settings
    /\ document = NoDocument
    /\ pc = "constructed"
    /\ text = <<>>
    /\ dockerfile = [directive |-> Null, instructions |-> <<>>]
    /\ escape = BACKSLASH
    /\ dc = 0
    /\ n = 0
    /\ i = 0
    /\ problems = <<>>
    /\ result = <<>>
    /\ previous = NoDocument
    /\ symbols = <<>>
    /\ modifiableInstruction = NoInstruction
    /\ calls = <<>>

\* new Validator(): the default settings
DefaultSettings == [deprecatedMaintainer |-> WARNING]

\* the optional argument of the constructor, left out
NoSettings == [undefined |-> TRUE]

\* new Validator(settings): the settings of the instance
newValidator(settingsArgument) ==
    IF settingsArgument = NoSettings THEN DefaultSettings ELSE settingsArgument

Init ==
    LET \* more documents of Spec: the other instructions that take one argument
        SinglePieces == {STOPSIGNAL, USER, WORKDIR, <<SPACE, "a">>, <<LF>>}
    IN  InitWith({<<t>> : t \in TextsOver(Pieces, MaxPieces)
                               \cup TextsOver(SinglePieces, MaxPieces)},
                 {KEYWORDS}, {DefaultSettings})

\* validate on an instance that keeps the document of its first call
ValidateStale(doc) ==
    /\ pc \in {"constructed", "returned"}
    /\ document' = (IF document = NoDocument THEN doc ELSE document)
    /\ text' = doc
    /\ dockerfile' = parse(doc)
    /\ LET this == [document |-> document', settings |-> settings]
           parsed == parseDirective(this, dockerfile', doc)
       IN  /\ escape' = parsed.escape
           /\ dc' = parsed.dc
           /\ problems' = Bounded(parsed.pushed
                                  \o checkSourceImage(this, doc, dockerfile'.instructions))
    /\ n' = 1
    /\ pc' = "instructions"
    /\ previous' = (IF pc = "constructed" THEN NoDocument ELSE text)
    /\ UNCHANGED <<docs, keywords, settings, i, result, symbols, modifiableInstruction, calls>>

\* validate, up to the for-of loop over the instructions
Validate(doc) ==
    /\ pc \in {"constructed", "returned"}
    /\ document' = doc
    /\ text' = doc
    /\ dockerfile' = parse(doc)
    /\ LET this == [document |-> document', settings |-> settings]
           parsed == parseDirective(this, dockerfile', doc)
       IN  /\ escape' = parsed.escape
           /\ dc' = parsed.dc
           /\ problems' = Bounded(parsed.pushed
                                  \o checkSourceImage(this, doc, dockerfile'.instructions))
    /\ n' = 1
    /\ pc' = "instructions"
    /\ previous' = (IF pc = "constructed" THEN NoDocument ELSE text)
    /\ UNCHANGED <<docs, keywords, settings, i, result, symbols, modifiableInstruction, calls>>

\* one iteration of the for-of loop over the instructions
CheckInstruction ==
    /\ pc = "instructions"
    /\ n <= Len(dockerfile.instructions)
    /\ problems' = Bounded(problems \o checkInstruction(This, text, keywords, escape,
                                                        dockerfile.instructions[n]))
    /\ n' = n + 1
    /\ UNCHANGED <<docs, keywords, settings, document, pc, text, dockerfile, escape,
                   dc, i, result, previous, symbols, modifiableInstruction, calls>>

\* the for-of loop is over: lineCheck starts at dc
StartLineCheck ==
    /\ pc = "instructions"
    /\ n > Len(dockerfile.instructions)
    /\ i' = dc
    /\ pc' = "lineCheck"
    /\ UNCHANGED <<docs, keywords, settings, document, text, dockerfile, escape,
                   dc, n, problems, result, previous, symbols, modifiableInstruction, calls>>

\* one iteration of the lineCheck loop
LineCheck ==
    /\ pc = "lineCheck"
    /\ i < Len(text)
    /\ LET step == lineCheck(This, keywords, escape, text, i)
       IN  /\ problems' = Bounded(problems \o step.pushed)
           /\ IF step.kind = "continue"
              THEN i' = step.i + 1 /\ pc' = pc
              ELSE i' = i /\ pc' = "return"
    /\ UNCHANGED <<docs, keywords, settings, document, text, dockerfile, escape,
                   dc, n, result, previous, symbols, modifiableInstruction, calls>>

\* return problems
Return ==
    /\ \/ pc = "lineCheck" /\ i >= Len(text)
       \/ pc = "return"
    /\ result' = problems
    /\ pc' = "returned"
    /\ UNCHANGED <<docs, keywords, settings, document, text, dockerfile, escape,
                   dc, n, i, problems, previous, symbols, modifiableInstruction, calls>>

Next ==
    \/ \E k \in 1..Len(docs) : Validate(docs[k])
    \/ CheckInstruction
    \/ StartLineCheck
    \/ LineCheck
    \/ Return

Spec == Init /\ [][Next]_vars

InitVolume ==
    LET \* more documents of SpecVolume: lines that open a JSON array
        JsonPieces ==
            {VOLUME \o <<SPACE, "[">>, <<QUOTE, BACKSLASH>>, <<QUOTE>>, <<"a">>, <<LF>>}
        \* the pieces of the documents of SpecVolume: VOLUME lines
        VolumePieces ==
            {VOLUME, <<SPACE>>, <<LF>>, <<"[">>, <<"]">>, <<"a">>, <<BACKSLASH>>}
    IN  InitWith({<<t>> : t \in TextsOver(VolumePieces, MaxPieces)
                               \cup TextsOver(JsonPieces, MaxPieces)},
                 {KEYWORDS}, {DefaultSettings})

SpecVolume == InitVolume /\ [][Next]_vars

InitDirective ==
    LET \* the pieces of the documents of SpecDirective: a directive on line 0
        DirectivePieces ==
            {<<"#","e","s","c","a","p","e","=">>, <<"#","e","s","k","a","p","e","=">>,
             <<BACKTICK>>, <<BACKSLASH>>, <<"a">>, <<LF>>}
    IN  InitWith({<<t>> : t \in TextsOver(DirectivePieces, MaxPieces)}, {KEYWORDS},
                 {DefaultSettings})

SpecDirective == InitDirective /\ [][Next]_vars

InitSignal ==
    LET \* the pieces of the documents of SpecSignal: STOPSIGNAL lines
        SignalPieces ==
            {STOPSIGNAL, <<SPACE, "S", "I", "G">>, <<SPACE, "9">>, <<SPACE, "a">>, <<"a">>, <<"9">>}
    IN  InitWith({<<t>> : t \in TextsOver(SignalPieces, MaxPieces)}, {KEYWORDS},
                 {DefaultSettings})

SpecSignal == InitSignal /\ [][Next]_vars

InitPort ==
    LET \* the pieces of the documents of SpecPort: EXPOSE lines
        PortPieces == {EXPOSE, <<SPACE, "8">>, <<SPACE, "-">>, <<SPACE, "a">>, <<"8">>, <<"-">>}
    IN  InitWith({<<t>> : t \in TextsOver(PortPieces, MaxPieces)}, {KEYWORDS},
                 {DefaultSettings})

SpecPort == InitPort /\ [][Next]_vars

InitUnknown ==
    LET \* the pieces of the documents of SpecUnknown: lines that start with a word
        \* that is no keyword, and VOLUME lines
        UnknownPieces ==
            {<<"X">>, <<SPACE, "a">>, <<LF>>, <<BACKSLASH>>, VOLUME \o <<SPACE, "[", "a">>}
    IN  InitWith({<<t>> : t \in TextsOver(UnknownPieces, MaxPieces)}, {KEYWORDS},
                 {DefaultSettings})

SpecUnknown == InitUnknown /\ [][Next]_vars

InitWord ==
    LET \* the pieces of the documents of SpecWord: words with escape characters and
        \* line breaks inside
        WordPieces ==
            {<<"F", "r">>, <<BACKSLASH>>, <<BACKSLASH, CR>>, <<LF>>, <<"o", "m", SPACE, "a">>}
    IN  InitWith({<<t>> : t \in TextsOver(WordPieces, MaxPieces)}, {KEYWORDS},
                 {DefaultSettings})

SpecWord == InitWord /\ [][Next]_vars

\* the whitelist of the caller holds EXPOSE or not
InitBranch ==
    LET \* the pieces of the documents of SpecBranch: keywords in upper and in lower
        \* case, with and without argument
        BranchPieces ==
            {<<"E","X","P","O","S","E">>, <<"e","x","p","o","s","e">>, <<SPACE, "a">>, <<LF>>}
    IN  InitWith({<<t>> : t \in TextsOver(BranchPieces, MaxPieces)},
                 {KEYWORDS, KEYWORDS \ {<<"E","X","P","O","S","E">>}}, {DefaultSettings})

SpecBranch == InitBranch /\ [][Next]_vars

InitBreak ==
    LET \* the pieces of the documents of SpecBreak: FROM lines continued over LF, CR
        \* and CRLF, and VOLUME lines
        BreakPieces ==
            {FROM, FROM \o <<SPACE>>, <<BACKSLASH>>, <<BACKSLASH, CR>>, <<LF>>,
             VOLUME \o <<SPACE, "[", "a">>}
    IN  InitWith({<<t>> : t \in TextsOver(BreakPieces, MaxPieces)}, {KEYWORDS},
                 {DefaultSettings})

SpecBreak == InitBreak /\ [][Next]_vars

InitComma ==
    LET \* the pieces of the documents of SpecComma: VOLUME arrays with strings,
        \* commas and brackets
        CommaPieces ==
            {VOLUME \o <<SPACE, "[">>, <<QUOTE, "a", QUOTE>>, <<",">>, <<"]">>, <<QUOTE>>, <<LF>>}
    IN  InitWith({<<t>> : t \in TextsOver(CommaPieces, MaxPieces)}, {KEYWORDS},
                 {DefaultSettings})

SpecComma == InitComma /\ [][Next]_vars

InitArray ==
    LET \* the pieces of the documents of SpecArray: VOLUME lines with JSON strings
        ArrayPieces ==
            {VOLUME \o <<SPACE, "[">>, VOLUME \o <<SPACE, "[", "a">>, <<QUOTE, "a", QUOTE>>,
             <<QUOTE>>, <<"]">>, <<LF>>}
    IN  InitWith({<<t>> : t \in TextsOver(ArrayPieces, MaxPieces)}, {KEYWORDS},
                 {DefaultSettings})

SpecArray == InitArray /\ [][Next]_vars

\* what the caller may pass to the constructor
SettingsArguments ==
    {NoSettings} \cup {[deprecatedMaintainer |-> v] : v \in {IGNORE, WARNING, ERROR}}

\* the Validator is constructed with or without settings
InitMaintainer ==
    LET \* the pieces of the documents of SpecMaintainer: MAINTAINER lines
        MaintainerPieces ==
            {MAINTAINER, <<"m","a","i","n","t","a","i","n","e","r">>, <<SPACE, "a">>, <<LF>>}
    IN  InitWith({<<t>> : t \in TextsOver(MaintainerPieces, MaxPieces)}, {KEYWORDS},
                 {newValidator(a) : a \in SettingsArguments})

SpecMaintainer == InitMaintainer /\ [][Next]_vars

\* two documents are open: validate is called on them in any order, again
\* and again, on the one Validator
InitHistory ==
    LET \* the pieces of the documents of SpecHistory
        HistoryPieces == {<<SPACE, "a">>, <<LF>>, VOLUME \o <<SPACE, "[", "a">>}
    IN  InitWith({<<t, o>> : t \in TextsOver(HistoryPieces, MaxPieces), o \in OtherDocuments},
                 {KEYWORDS}, {DefaultSettings})

SpecHistory == InitHistory /\ [][Next]_vars

\* a call of parseSymbolInformation on a document
ParseSymbolInformation(doc) ==
    /\ symbols = <<>>
    /\ symbols' = <<parseSymbolInformation(doc, URI)>>
    /\ UNCHANGED <<docs, keywords, settings, document, pc, text, dockerfile, escape,
                   dc, n, i, problems, result, previous, modifiableInstruction, calls>>

NextSymbols == \E k \in 1..Len(docs) : ParseSymbolInformation(docs[k])

InitSymbols ==
    LET \* the pieces of the documents of SpecSymbols: directives, comments and
        \* instructions with escape characters
        SymbolPieces ==
            {<<"#", "e", "s", "c", "a", "p", "e", "=">>, <<"#", "e", "=">>, <<"#">>,
             <<"F", "r">>, <<SPACE, "a">>, <<BACKSLASH>>, <<LF>>}
    IN  InitWith({<<t>> : t \in TextsOver(SymbolPieces, MaxPieces)}, {KEYWORDS},
                 {DefaultSettings})

SpecSymbols == InitSymbols /\ [][NextSymbols]_vars

\* a call of getFlags on the instruction
GetFlags ==
    /\ Len(calls) < MaxCalls
    /\ modifiableInstruction' = getFlags(modifiableInstruction).this
    /\ calls' = Append(calls, [method |-> "getFlags",
                               returned |-> getFlags(modifiableInstruction).returned])
    /\ UNCHANGED <<docs, keywords, settings, document, pc, text, dockerfile, escape,
                   dc, n, i, problems, result, previous, symbols>>

\* a call of getArguments on the instruction
GetArguments ==
    /\ Len(calls) < MaxCalls
    /\ modifiableInstruction' = getArguments(modifiableInstruction).this
    /\ calls' = Append(calls, [method |-> "getArguments",
                               returned |-> getArguments(modifiableInstruction).returned])
    /\ UNCHANGED <<docs, keywords, settings, document, pc, text, dockerfile, escape,
                   dc, n, i, problems, result, previous, symbols>>

NextModifiable == GetFlags \/ GetArguments

\* an instruction of a subclass, its arguments parsed, no flags yet
InitModifiable ==
    /\ docs = <<<<>>>>
    /\ keywords = KEYWORDS
    /\ settings = DefaultSettings
    /\ document = NoDocument
    /\ pc = "constructed"
    /\ text = <<>>
    /\ dockerfile = [directive |-> Null, instructions |-> <<>>]
    /\ escape = BACKSLASH
    /\ dc = 0
    /\ n = 0
    /\ i = 0
    /\ problems = <<>>
    /\ result = <<>>
    /\ previous = NoDocument
    /\ symbols = <<>>
    /\ modifiableInstruction \in {[arguments |-> makeArguments(v, 2), stop |-> s, flags |-> NoFlags] :
                            v \in ValuesUpTo(MaxArguments),
                            s \in {"never", "notFlag", "command", "always"}}
    /\ calls = <<>>

SpecModifiable == InitModifiable /\ [][NextModifiable]_vars

(***************************************************************************)
(* Claims.                                                                 *)
(***************************************************************************)
\* C1: every call of validate terminates: the offset of the lineCheck loop
\* reaches the end of the text or the function returns.  An iteration is a
\* function of the offset and of the text alone, so a call terminates only
\* if no iteration stays in the loop and leaves the offset where it was.
C1_ValidateTerminates == [][(pc = "lineCheck" /\ pc' = "lineCheck") => i' # i]_vars

\* the diagnostics of a list that carry a code
WithCode(list, code) ==
    LET has(d) == d.code = code
    IN  SelectSeq(list, has)

\* the diagnostics of a list whose range is a given one
WithRange(list, range) ==
    LET at(d) == d.range = range
    IN  SelectSeq(list, at)

\* C2: every diagnostic is created with offsets start and end such that
\* 0 <= start <= end <= length of the text.
C2_OffsetsInDocument ==
    \A k \in 1..Len(problems) :
        /\ 0 <= problems[k].start
        /\ problems[k].start <= problems[k].end
        /\ problems[k].end <= Len(text)

\* C3: the list validate returns holds exactly one NO_SOURCE_IMAGE when there
\* is no instruction (created at offsets 0 and 0) or when the keyword of the
\* first instruction is not FROM (at the range of that keyword), and none
\* otherwise.
C3_NoSourceImage ==
    pc = "returned" =>
        LET ins == dockerfile.instructions
            found == WithCode(result, "NO_SOURCE_IMAGE")
        IN  IF Len(ins) = 0
            THEN /\ Len(found) = 1
                 /\ found[1].start = 0 /\ found[1].end = 0
                 /\ found[1].range = <<<<0, 0>>, <<0, 0>>>>
            ELSE IF getKeyword(ins[1]) # FROM
            THEN /\ Len(found) = 1
                 /\ found[1].range = getInstructionRange(ins[1])
            ELSE Len(found) = 0

\* C3 witness: a returned call whose first instruction, not on line 0, is
\* not FROM and is followed by another instruction
C3_Witness ==
    /\ pc = "returned"
    /\ Len(dockerfile.instructions) > 1
    /\ getKeyword(dockerfile.instructions[1]) # FROM
    /\ getInstructionRange(dockerfile.instructions[1])[1][1] > 0
    /\ Len(WithCode(result, "NO_SOURCE_IMAGE")) = 1

\* the indices of the instructions whose keyword the whitelist lacks
UnknownInstructions ==
    {k \in 1..Len(dockerfile.instructions) :
        getKeyword(dockerfile.instructions[k]) \notin keywords}

C5_HistoryIndependent ==
    pc = "returned" => result = Bounded(validate(settings, keywords, text))

\* C5 witness: a call has returned diagnostics for a text with two lines
\* after a call on another text
C5_Witness ==
    /\ pc = "returned"
    /\ previous # NoDocument
    /\ previous # text
    /\ Cardinality(lineOffsets(text)) # Cardinality(lineOffsets(previous))
    /\ Len(result) > 1

\* the pass a diagnostic comes from: 0 the directive, 1 the test for FROM,
\* 2 the checks on the instructions, 3 the scanner
Pass(d) ==
    IF d.code \in {"UNKNOWN_DIRECTIVE", "INVALID_ESCAPE_DIRECTIVE"} THEN 0
    ELSE IF d.code = "NO_SOURCE_IMAGE" THEN 1
    ELSE IF d.code = "DEFAULT" THEN 3
    ELSE 2

\* C6: in the list validate returns a directive diagnostic comes first, then
\* NO_SOURCE_IMAGE, then the diagnostics of the instructions in the order of
\* the text, then the UNEXPECTED_TOKEN diagnostics of the scanner in the
\* order of the text.
C6_InsertionOrder ==
    pc = "returned" =>
        \A a, b \in 1..Len(result) :
            a < b =>
                /\ Pass(result[a]) <= Pass(result[b])
                /\ Pass(result[a]) = Pass(result[b]) =>
                       /\ Pass(result[a]) \in {2, 3}
                       /\ result[a].start <= result[b].start

\* C7: with no directive the escape character is the backslash and the body
\* starts at offset 0; with a directive named escape the escape character is
\* the value when the value is the backslash or the backtick, and the
\* backslash otherwise; INVALID_ESCAPE_DIRECTIVE is emitted, once and at the
\* range of the value, exactly when the value is none of backslash, backtick
\* and the empty string; the body starts where the range of the directive
\* ends; the escape character is always the backslash or the backtick.
C7_EscapeDirective ==
    pc # "constructed" =>
        LET directive == dockerfile.directive
            value == getValue(directive)
            invalid == WithCode(problems, "INVALID_ESCAPE_DIRECTIVE")
        IN  /\ escape \in {BACKSLASH, BACKTICK}
            /\ directive = Null =>
                   /\ escape = BACKSLASH
                   /\ dc = 0
                   /\ invalid = <<>>
            /\ (directive # Null /\ getDirective(directive) = DIRECTIVE_ESCAPE) =>
                   /\ escape = (IF value \in {<<BACKSLASH>>, <<BACKTICK>>}
                                THEN value[1] ELSE BACKSLASH)
                   /\ IF value \in {<<BACKSLASH>>, <<BACKTICK>>, <<>>}
                      THEN invalid = <<>>
                      ELSE /\ Len(invalid) = 1
                           /\ invalid[1].range = getValueRange(directive)
                           /\ invalid[1].severity = Error
                           /\ problems[1] = invalid[1]
                   /\ dc <= Len(text)
                   /\ positionAt(text, dc) = getRange(directive)[2]
                   /\ WithCode(problems, "UNKNOWN_DIRECTIVE") = <<>>

\* C7 witness: a call has returned on a text whose directive named escape has
\* a value that is neither backslash nor backtick, followed by an instruction
C7_Witness ==
    /\ pc = "returned"
    /\ dockerfile.directive # Null
    /\ getDirective(dockerfile.directive) = DIRECTIVE_ESCAPE
    /\ getValue(dockerfile.directive) \notin {<<BACKSLASH>>, <<BACKTICK>>, <<>>}
    /\ escape = BACKSLASH
    /\ dc > 0
    /\ Len(dockerfile.instructions) > 0
    /\ Len(WithCode(result, "INVALID_ESCAPE_DIRECTIVE")) = 1

\* C8: when the directive of line 0 is not named escape, exactly one
\* UNKNOWN_DIRECTIVE is emitted, an Error at the range of the name of the
\* directive, no INVALID_ESCAPE_DIRECTIVE is emitted, and the escape
\* character is the value of the directive when that is the backslash or the
\* backtick, and the backslash otherwise.
C8_UnknownDirective ==
    (pc # "constructed" /\ dockerfile.directive # Null
        /\ getDirective(dockerfile.directive) # DIRECTIVE_ESCAPE) =>
        LET directive == dockerfile.directive
            value == getValue(directive)
            unknown == WithCode(problems, "UNKNOWN_DIRECTIVE")
        IN  /\ Len(unknown) = 1
            /\ unknown[1].severity = Error
            /\ unknown[1].range = getNameRange(directive)
            /\ problems[1] = unknown[1]
            /\ WithCode(problems, "INVALID_ESCAPE_DIRECTIVE") = <<>>
            /\ escape = (IF value \in {<<BACKSLASH>>, <<BACKTICK>>}
                         THEN value[1] ELSE BACKSLASH)

\* C8 witness: a call has returned on a text whose directive is not named
\* escape and has the backtick for its value, followed by an instruction
C8_Witness ==
    /\ pc = "returned"
    /\ dockerfile.directive # Null
    /\ getDirective(dockerfile.directive) # DIRECTIVE_ESCAPE
    /\ getValue(dockerfile.directive) = <<BACKTICK>>
    /\ escape = BACKTICK
    /\ Len(dockerfile.instructions) > 0
    /\ Len(WithCode(result, "UNKNOWN_DIRECTIVE")) = 1

\* the instructions validate hands to checkArguments: in the whitelist and
\* written in upper case
Dispatched(k) ==
    /\ getKeyword(dockerfile.instructions[k]) \in keywords
    /\ getKeyword(dockerfile.instructions[k]) = getInstruction(dockerfile.instructions[k])

\* the text after the keyword of the k-th instruction
ArgumentText(k) ==
    substring(getTextContent(text, dockerfile.instructions[k]),
              Len(getInstruction(dockerfile.instructions[k])),
              Len(getTextContent(text, dockerfile.instructions[k])))

\* args from offset k on is whitespace and escaped line breaks only, seen
\* telling whether an escaped line break was met
RECURSIVE OnlyContinuations(_, _, _, _)
OnlyContinuations(args, k, esc, seen) ==
    IF k >= Len(args) THEN seen
    ELSE IF isWhitespace(charAt(args, k)) THEN OnlyContinuations(args, k + 1, esc, seen)
    ELSE /\ charAt(args, k) = esc
         /\ isNewline(charAt(args, k + 1))
         /\ OnlyContinuations(args, k + 2, esc, TRUE)

\* the instructions handed to checkArguments whose text after the keyword is
\* whitespace and escaped line breaks up to the end of the text
CutInContinuation ==
    {k \in 1..Len(dockerfile.instructions) :
        /\ Dispatched(k)
        /\ offsetAt(text, dockerfile.instructions[k].range[2]) = Len(text)
        /\ OnlyContinuations(ArgumentText(k), 0, escape, FALSE)}

\* the diagnostics with a code at the range of the keyword of an instruction
AtKeyword(list, code, k) ==
    WithRange(WithCode(list, code), getInstructionRange(dockerfile.instructions[k]))

\* C9 (as stated): when the text after the keyword is only whitespace and
\* escaped line breaks, up to the end of the text, no MISSING_ARGUMENT is
\* emitted for the instruction.
C9_ContinuationIsArgument ==
    pc = "returned" =>
        \A k \in CutInContinuation : AtKeyword(result, "MISSING_ARGUMENT", k) = <<>>

\* C9 (amended): when the text after the keyword is only whitespace and
\* escaped line breaks, up to the end of the text, the check finds no
\* argument: exactly one MISSING_ARGUMENT, an Error, is emitted at the range
\* of the keyword.
C9_ContinuationIsMissing ==
    pc = "returned" =>
        \A k \in CutInContinuation :
            /\ Len(AtKeyword(result, "MISSING_ARGUMENT", k)) = 1
            /\ AtKeyword(result, "MISSING_ARGUMENT", k)[1].severity = Error

\* C9 witness: a call has returned on a text that ends in the escaped line
\* break after a FROM
C9_Witness ==
    /\ pc = "returned"
    /\ \E k \in CutInContinuation :
           /\ getKeyword(dockerfile.instructions[k]) = FROM
           /\ Len(AtKeyword(result, "MISSING_ARGUMENT", k)) = 1

\* the argument tokens of the k-th instruction
Arguments(k) == getArgments(text, dockerfile.instructions[k], escape)

\* the instructions checked in single-argument mode that have two tokens or more
ManyArguments ==
    {k \in 1..Len(dockerfile.instructions) :
        /\ Dispatched(k)
        /\ getKeyword(dockerfile.instructions[k]) \in {FROM, WORKDIR, USER, STOPSIGNAL}
        /\ Len(Arguments(k)) >= 2}

\* the diagnostics of a list created inside the range of the k-th instruction
Inside(list, k) ==
    LET in(d) == /\ offsetAt(text, dockerfile.instructions[k].range[1]) <= d.start
                 /\ d.end <= offsetAt(text, dockerfile.instructions[k].range[2])
    IN  SelectSeq(list, in)

\* C10: for a FROM, WORKDIR, USER or STOPSIGNAL checked in single-argument
\* mode with two argument tokens or more, exactly one EXTRA_ARGUMENT is
\* emitted, an Error at the range of the second token; for FROM, WORKDIR and
\* USER no diagnostic is at the range of the first token.
C10_ExtraArgument ==
    pc = "returned" =>
        \A k \in ManyArguments :
            LET extra == Inside(WithCode(result, "EXTRA_ARGUMENT"), k)
            IN  /\ Len(extra) = 1
                /\ extra[1].range = Arguments(k)[2].range
                /\ extra[1].severity = Error
                /\ getKeyword(dockerfile.instructions[k]) # STOPSIGNAL =>
                       WithRange(result, Arguments(k)[1].range) = <<>>

\* C10 witness: a call has returned on a text with a USER of three tokens
C10_Witness ==
    /\ pc = "returned"
    /\ \E k \in ManyArguments :
           /\ getKeyword(dockerfile.instructions[k]) = USER
           /\ Len(Arguments(k)) = 3
           /\ Len(WithCode(result, "EXTRA_ARGUMENT")) = 1

\* a stop signal starts with SIG or is made of digits only
StartsWithSIG(v) == Len(v) >= 3 /\ v[1] = "S" /\ v[2] = "I" /\ v[3] = "G"
AllDigits(v) == \A k \in 1..Len(v) : v[k] \in {"0","1","2","3","4","5","6","7","8","9"}

\* the STOPSIGNAL instructions checked that have an argument token
StopSignals ==
    {k \in 1..Len(dockerfile.instructions) :
        /\ Dispatched(k)
        /\ getKeyword(dockerfile.instructions[k]) = STOPSIGNAL
        /\ Len(Arguments(k)) >= 1}

\* C11: for a STOPSIGNAL with an argument, INVALID_STOPSIGNAL is emitted,
\* once and at the range of the first token, exactly when that token neither
\* starts with SIG nor is made of digits only; no later token is tested.
C11_StopSignal ==
    pc = "returned" =>
        \A k \in StopSignals :
            LET invalid == Inside(WithCode(result, "INVALID_STOPSIGNAL"), k)
                first == Arguments(k)[1]
            IN  IF StartsWithSIG(first.value) \/ AllDigits(first.value)
                THEN invalid = <<>>
                ELSE /\ Len(invalid) = 1
                     /\ invalid[1].range = first.range
                     /\ invalid[1].severity = Error

\* C11 witness: a call has returned on a STOPSIGNAL whose first token starts
\* with a digit and is no number, and whose second token is no signal either
C11_Witness ==
    /\ pc = "returned"
    /\ \E k \in StopSignals :
           /\ Len(Arguments(k)) = 2
           /\ Arguments(k)[1].value = <<"9", "a">>
           /\ ~AllDigits(Arguments(k)[2].value)
           /\ Len(WithCode(result, "INVALID_STOPSIGNAL")) = 1

\* a port is made of digits and dashes and neither starts nor ends with a dash
PortPasses(v) ==
    /\ \A k \in 1..Len(v) : v[k] \in {"-","0","1","2","3","4","5","6","7","8","9"}
    /\ v[1] # "-"
    /\ v[Len(v)] # "-"

\* the tokens of the k-th instruction that are no port, in the order of the text
FailingPorts(k) ==
    LET fails(arg) == ~PortPasses(arg.value)
    IN  SelectSeq(Arguments(k), fails)

\* the EXPOSE instructions checked that have an argument token
Exposes ==
    {k \in 1..Len(dockerfile.instructions) :
        /\ Dispatched(k)
        /\ getKeyword(dockerfile.instructions[k]) = EXPOSE
        /\ Len(Arguments(k)) >= 1}

Maintainers ==
    {k \in 1..Len(dockerfile.instructions) :
        /\ Dispatched(k)
        /\ getKeyword(dockerfile.instructions[k]) = MAINTAINER}

\* C13: for a MAINTAINER in the whitelist and in upper case there is no
\* DEPRECATED_MAINTAINER when the setting is IGNORE and exactly one otherwise,
\* a Warning for WARNING and an Error for ERROR; a Validator constructed
\* without settings has the setting WARNING; the list holds no null.
C13_DeprecatedMaintainer ==
    /\ newValidator(NoSettings).deprecatedMaintainer = WARNING
    /\ \A a \in SettingsArguments \ {NoSettings} : newValidator(a) = a
    /\ pc = "returned" =>
           /\ \A m \in 1..Len(result) : result[m] # Null
           /\ \A k \in Maintainers :
                  LET deprecated == Inside(WithCode(result, "DEPRECATED_MAINTAINER"), k)
                  IN  IF settings.deprecatedMaintainer = IGNORE
                      THEN deprecated = <<>>
                      ELSE /\ Len(deprecated) = 1
                           /\ deprecated[1].severity =
                                  (IF settings.deprecatedMaintainer = WARNING
                                   THEN Warning ELSE Error)

\* C13 witness: a call has returned on a text with two MAINTAINER
\* instructions under the setting IGNORE
C13_Witness ==
    /\ pc = "returned"
    /\ settings.deprecatedMaintainer = IGNORE
    /\ Cardinality(Maintainers) = 2
    /\ WithCode(result, "DEPRECATED_MAINTAINER") = <<>>
    /\ Len(result) > 0

\* the message catalog: what a message of a code starts and ends with, the
\* value of the slot standing in between for the codes that have a slot
CatalogPrefix(code) ==
    IF code = "UNKNOWN_DIRECTIVE" THEN <<"Unknown directive: ">>
    ELSE IF code = "INVALID_ESCAPE_DIRECTIVE" THEN <<"invalid ESCAPE '">>
    ELSE IF code = "NO_SOURCE_IMAGE"
    THEN <<"No source image provided with ", BACKTICK, "FROM", BACKTICK>>
    ELSE IF code = "INVALID_PORT" THEN <<"Invalid containerPort: ">>
    ELSE IF code = "INVALID_STOPSIGNAL" THEN <<"Invalid stop signal">>
    ELSE IF code = "EXTRA_ARGUMENT" THEN <<"Instruction has an extra argument">>
    ELSE IF code = "MISSING_ARGUMENT" THEN <<"Instruction has no arguments">>
    ELSE IF code = "UNKNOWN_INSTRUCTION" THEN <<"Unknown instruction: ">>
    ELSE IF code = "LOWERCASE"
    THEN <<"Instructions should be written in uppercase letters">>
    ELSE IF code = "DEPRECATED_MAINTAINER" THEN <<"MAINTAINER has been deprecated">>
    ELSE <<"Unexpected token">>

CatalogSuffix(code) ==
    IF code = "INVALID_ESCAPE_DIRECTIVE" THEN <<"'. Must be ", BACKTICK, " or \\">>
    ELSE <<>>

HasSlot(code) ==
    code \in {"UNKNOWN_DIRECTIVE", "INVALID_ESCAPE_DIRECTIVE", "INVALID_PORT",
              "UNKNOWN_INSTRUCTION"}

MatchesCatalog(d) ==
    LET prefix == CatalogPrefix(d.code)
        suffix == CatalogSuffix(d.code)
        m == d.message
    IN  /\ Len(m) >= Len(prefix) + Len(suffix)
        /\ SubSeq(m, 1, Len(prefix)) = prefix
        /\ SubSeq(m, Len(m) - Len(suffix) + 1, Len(m)) = suffix
        /\ HasSlot(d.code) \/ Len(m) = Len(prefix) + Len(suffix)
        /\ \A k \in 1..Len(m) : m[k] # SLOT

\* C14: the message of every diagnostic is the string of the catalog for its
\* code, the slot filled; an INVALID_STOPSIGNAL has the message
\* "Invalid stop signal".
C14_Messages == \A k \in 1..Len(problems) : MatchesCatalog(problems[k])

\* the offsets of the brackets that open the array of a VOLUME line, the
\* keyword standing at the start of its line
Arrays ==
    {b \in 7..(Len(text) - 1) :
        /\ isLineStart(text, b - 7)
        /\ substring(text, b - 7, b + 1) = VOLUME \o <<SPACE, "[">>}

\* the offset of the line break that ends the line of offset k, or the
\* length of the text
LineEnd(k) ==
    LET ends == {e \in k..Len(text) : e = Len(text) \/ text[e + 1] \in {CR, LF}}
    IN  SetMin(ends)

\* the offset of the first quote from k on that stands where a comma is
\* expected, nothing but strings, commas, brackets and blanks coming before
\* it on the line; -1 when there is none
RECURSIVE DefectQuote(_, _, _)
DefectQuote(k, inString, expectComma) ==
    IF k >= Len(text) \/ text[k + 1] \in {CR, LF} THEN -1
    ELSE IF text[k + 1] = QUOTE
         THEN IF expectComma THEN k ELSE DefectQuote(k + 1, ~inString, inString)
    ELSE IF inString THEN DefectQuote(k + 1, inString, expectComma)
    ELSE IF text[k + 1] \in {SPACE, TAB, "]"} THEN DefectQuote(k + 1, inString, expectComma)
    ELSE IF text[k + 1] = "," THEN DefectQuote(k + 1, inString, FALSE)
    ELSE -1

\* from k on the line is strings separated by commas, then the closing bracket
RECURSIVE WellFormed(_, _)
WellFormed(k, afterString) ==
    IF afterString
    THEN \/ charAt(text, k) = "]" /\ LineEnd(k) = k + 1
         \/ charAt(text, k) = "," /\ WellFormed(k + 1, FALSE)
    ELSE /\ substring(text, k, k + 3) = <<QUOTE, "a", QUOTE>>
         /\ WellFormed(k + 3, TRUE)

\* the UNEXPECTED_TOKEN diagnostics of a list created from offset lo to hi
TokensIn(list, lo, hi) ==
    LET in(d) == d.code = "DEFAULT" /\ lo <= d.start /\ d.start <= hi
    IN  SelectSeq(list, in)

\* C15: when the scanner has reported the quote of a VOLUME array that
\* stands where a comma is expected, the report covers that quote and is the
\* only UNEXPECTED_TOKEN of the line; the line of a well-formed array has
\* no UNEXPECTED_TOKEN.
C15_ExpectedComma ==
    pc = "returned" =>
        \A b \in Arrays :
            LET q == DefectQuote(b + 1, FALSE, FALSE)
            IN  /\ (q # -1 /\ TokensIn(result, q, q) # <<>>) =>
                       /\ Len(TokensIn(result, b, LineEnd(b))) = 1
                       /\ TokensIn(result, q, q)[1].end = q + 1
                /\ WellFormed(b + 1, FALSE) => TokensIn(result, b, LineEnd(b)) = <<>>

\* the line at offset k starts with VOLUME, one space and a bracket
VolumeArrayAt(k) ==
    /\ toUpperCase(substring(text, k, k + 6)) = VOLUME
    /\ substring(text, k + 6, k + 8) = <<SPACE, "[">>

\* the offset of the first character from k on that stands outside a string
\* and is none of quote, blank, bracket and comma, the line holding no
\* escape character and no misplaced quote before it; -1 when there is none
RECURSIVE FirstStray(_, _, _)
FirstStray(k, inString, expectComma) ==
    IF k >= Len(text) \/ text[k + 1] \in {CR, LF} THEN -1
    ELSE IF text[k + 1] = QUOTE
         THEN IF expectComma THEN -1 ELSE FirstStray(k + 1, ~inString, inString)
    ELSE IF text[k + 1] = escape THEN -1
    ELSE IF inString THEN FirstStray(k + 1, inString, expectComma)
    ELSE IF text[k + 1] \in {SPACE, TAB, "]"} THEN FirstStray(k + 1, inString, expectComma)
    ELSE IF text[k + 1] = "," THEN FirstStray(k + 1, inString, FALSE)
    ELSE k

\* C16: an iteration of the scanner, which calls the validator of JSON
\* arrays once at most, appends one diagnostic at most; when it calls it on
\* an array with a stray character outside a string, it appends exactly the
\* UNEXPECTED_TOKEN of the first such character, at its own offset.
C16_OneToken ==
    [][(pc = "lineCheck" /\ i < Len(text) /\ Len(problems) < MaxProblems) =>
          /\ Len(problems') <= Len(problems) + 1
          /\ SubSeq(problems', 1, Len(problems)) = problems
          /\ (VolumeArrayAt(i) /\ FirstStray(i + 8, FALSE, FALSE) # -1) =>
                 /\ Len(problems') = Len(problems) + 1
                 /\ problems'[Len(problems')].code = "DEFAULT"
                 /\ problems'[Len(problems')].start = FirstStray(i + 8, FALSE, FALSE)
                 /\ problems'[Len(problems')].end = FirstStray(i + 8, FALSE, FALSE) + 1]_vars

\* VOLUME [a] was validated: one UNEXPECTED_TOKEN, on the a
C16_Witness ==
    /\ pc = "returned"
    /\ text = VOLUME \o <<SPACE, "[", "a", "]">>
    /\ Len(WithCode(result, "DEFAULT")) = 1
    /\ WithCode(result, "DEFAULT")[1].start = 8

\* the offset of the first whitespace after offset k, or -1
WordEnd(k) == FirstIndexOf(text, k + 1, Len(text), {SPACE, TAB, CR, LF})

\* a word without escape character starts at offset k, is followed by a
\* whitespace, and is no keyword once uppercased
UnknownWordAt(k) ==
    /\ charAt(text, k) \notin {SPACE, TAB, CR, LF, "#"}
    /\ WordEnd(k) # -1
    /\ \A m \in k..(WordEnd(k) - 1) : charAt(text, m) # escape
    /\ toUpperCase(substring(text, k, WordEnd(k))) \notin keywords \cup {VOLUME}

\* the offset of the first line break from k on that no escape character
\* precedes, or -1
RECURSIVE NextBreak(_)
NextBreak(k) ==
    IF k >= Len(text) THEN -1
    ELSE IF charAt(text, k) = escape /\ charAt(text, k + 1) \in {CR, LF} THEN NextBreak(k + 2)
    ELSE IF charAt(text, k) \in {CR, LF} THEN k
    ELSE NextBreak(k + 1)

RECURSIVE SplicedWord(_)
SplicedWord(k) ==
    IF k >= Len(text) THEN <<>>
    ELSE IF charAt(text, k) = escape /\ charAt(text, k + 1) = CR /\ charAt(text, k + 2) = LF
    THEN SplicedWord(k + 3)
    ELSE IF charAt(text, k) = escape /\ charAt(text, k + 1) \in {CR, LF}
    THEN SplicedWord(k + 2)
    ELSE IF charAt(text, k) \in {SPACE, TAB, CR, LF} THEN <<>>
    ELSE <<charAt(text, k)>> \o SplicedWord(k + 1)

\* the iteration of the scanner at offset k collects a word and dispatches
DispatchesAt(k) ==
    /\ pc = "lineCheck"
    /\ k < Len(text)
    /\ charAt(text, k) \notin {SPACE, TAB, CR, LF, "#"}
    /\ firstWord(text, escape, k + 1, k, <<>>).kind = "word"

\* C18: the word the scanner dispatches on is the characters from the start
\* of the word to the first whitespace, the sequences of the escape
\* character and a line break removed, in upper case.
C18_DispatchedWord ==
    DispatchesAt(i) =>
        firstWord(text, escape, i + 1, i, <<>>).uppercaseInstruction
            = toUpperCase(SplicedWord(i))

\* the same for the words that do not start with the escape character
SplicedAfterFirstCharacter ==
    (DispatchesAt(i) /\ charAt(text, i) # escape) =>
        firstWord(text, escape, i + 1, i, <<>>).uppercaseInstruction
            = toUpperCase(SplicedWord(i))

\* a text without the sequences of the escape character esc and a line
\* break (LF, CR or CRLF)
RECURSIVE Spliced(_, _)
Spliced(s, esc) ==
    IF s = <<>> THEN <<>>
    ELSE IF Len(s) >= 3 /\ s[1] = esc /\ s[2] = CR /\ s[3] = LF
    THEN Spliced(SubSeq(s, 4, Len(s)), esc)
    ELSE IF Len(s) >= 2 /\ s[1] = esc /\ s[2] \in {CR, LF}
    THEN Spliced(Tail(Tail(s)), esc)
    ELSE <<Head(s)>> \o Spliced(Tail(s), esc)

\* the text of a document between the two positions of a range
Written(doc, range) == substring(doc, offsetAt(doc, range[1]), offsetAt(doc, range[2]))

\* every line of a document is blank or a comment
CommentOnly(doc) ==
    \A ls \in {0} \cup {k \in 1..Len(doc) : doc[k] \in {CR, LF}} :
        LET first == FirstIndexNotOf(doc, ls, Len(doc), {SPACE, TAB})
        IN  first = -1 \/ charAt(doc, first) \in {"#", CR, LF}

\* the escape character of a parsed document
EscapeOf(df) ==
    IF /\ df.directive # Null
       /\ getDirective(df.directive) = DIRECTIVE_ESCAPE
       /\ getValue(df.directive) = <<BACKTICK>>
    THEN BACKTICK ELSE BACKSLASH

\* C19: the list parseSymbolInformation returns holds one Property symbol for
\* the directive of line 0, if any and whatever its name, with its name and
\* the range of its name, then one Function symbol for each instruction, in
\* the order of the source, with the instruction as written and the range of
\* the keyword; it is empty for a document of comments and blank lines only.
C19_Symbols ==
    Len(symbols) = 1 =>
        LET list == symbols[1]
            df == parse(docs[1])
            d == df.directive
            ins == df.instructions
            off == IF d # Null THEN 1 ELSE 0
        IN  /\ Len(list) = off + Len(ins)
            /\ \A k \in 1..Len(list) : list[k].location.uri = URI
            /\ d # Null =>
                   /\ list[1].kind = Property
                   /\ list[1].location.range = getNameRange(d)
                   /\ list[1].location.range[1][1] = 0
                   /\ list[1].name = Written(docs[1], list[1].location.range)
            /\ \A k \in 1..Len(ins) :
                   /\ list[off + k].kind = Function
                   /\ list[off + k].location.range = getInstructionRange(ins[k])
                   /\ list[off + k].name
                          = Spliced(Written(docs[1], list[off + k].location.range),
                                    EscapeOf(df))
                   /\ k > 1 => offsetAt(docs[1], list[off + k - 1].location.range[2])
                                  < offsetAt(docs[1], list[off + k].location.range[1])
            /\ (d = Null /\ CommentOnly(docs[1])) => list = <<>>

\* the symbols of a document with a directive that is not the escape
\* directive and an instruction were computed
C19_Witness ==
    /\ Len(symbols) = 1
    /\ Len(symbols[1]) = 2
    /\ symbols[1][1].kind = Property
    /\ symbols[1][1].name = <<"e">>
    /\ symbols[1][2].kind = Function
    /\ symbols[1][2].name = <<"F", "r">>

\* the codes of the diagnostics an iteration of the for-of loop appends
PushedCodes ==
    {problems'[k].code : k \in (Len(problems) + 1)..Len(problems')}

\* C20: an iteration of the for-of loop over the instructions takes one
\* branch: for a keyword that is not in the whitelist it appends
\* UNKNOWN_INSTRUCTION alone; else, for a keyword written otherwise than in
\* upper case, the LOWERCASE warning alone; else neither of them.
C20_OneBranch ==
    [][(pc = "instructions" /\ n <= Len(dockerfile.instructions)
        /\ Len(problems') < MaxProblems) =>
          LET written == dockerfile.instructions[n].instruction
          IN  /\ SubSeq(problems', 1, Len(problems)) = problems
              /\ IF toUpperCase(written) \notin keywords
                 THEN /\ Len(problems') = Len(problems) + 1
                      /\ PushedCodes = {"UNKNOWN_INSTRUCTION"}
                 ELSE IF toUpperCase(written) # written
                 THEN /\ Len(problems') = Len(problems) + 1
                      /\ PushedCodes = {"LOWERCASE"}
                 ELSE PushedCodes \cap {"UNKNOWN_INSTRUCTION", "LOWERCASE"} = {}]_vars

\* a text of the one line "expose", without argument, was validated with
\* EXPOSE in the whitelist: the warning is all the loop has for it
C20_Witness ==
    /\ pc = "returned"
    /\ text = <<"e","x","p","o","s","e">>
    /\ WithCode(result, "LOWERCASE") # <<>>
    /\ WithCode(result, "MISSING_ARGUMENT") = <<>>

\* a text after a keyword has content: a character that is no whitespace
\* and is not the escape character before a line break
HasContent(args, esc) ==
    \E k \in 0..(Len(args) - 1) :
        /\ ~isWhitespace(charAt(args, k))
        /\ ~(charAt(args, k) = esc /\ charAt(args, k + 1) \in {CR, LF})

\* the diagnostics an iteration of the for-of loop appends
Pushed == SubSeq(problems', Len(problems) + 1, Len(problems'))

\* C21: for an instruction that reaches checkArguments, MISSING_ARGUMENT is
\* appended, once and at the range of the keyword, exactly when the text after
\* the keyword has no content, an escape character without line break being
\* content; with it come no EXTRA_ARGUMENT, INVALID_PORT or
\* INVALID_STOPSIGNAL; without it the check of the keyword runs: a second
\* token of FROM, WORKDIR, USER, STOPSIGNAL gets its EXTRA_ARGUMENT and a
\* first token that is no stop signal its INVALID_STOPSIGNAL.
C21_MissingArgument ==
    [][(pc = "instructions" /\ n <= Len(dockerfile.instructions) /\ Dispatched(n)
        /\ Len(problems') < MaxProblems) =>
          IF HasContent(ArgumentText(n), escape)
          THEN /\ "MISSING_ARGUMENT" \notin PushedCodes
               /\ (n \in ManyArguments) <=> ("EXTRA_ARGUMENT" \in PushedCodes)
               /\ (/\ getKeyword(dockerfile.instructions[n]) = STOPSIGNAL
                   /\ Len(Arguments(n)) >= 1
                   /\ ~StartsWithSIG(Arguments(n)[1].value)
                   /\ ~AllDigits(Arguments(n)[1].value))
                      <=> ("INVALID_STOPSIGNAL" \in PushedCodes)
          ELSE /\ Len(WithCode(Pushed, "MISSING_ARGUMENT")) = 1
               /\ WithCode(Pushed, "MISSING_ARGUMENT")[1].range
                      = getInstructionRange(dockerfile.instructions[n])
               /\ PushedCodes \cap {"EXTRA_ARGUMENT", "INVALID_PORT",
                                     "INVALID_STOPSIGNAL"} = {}]_vars

\* a text with a STOPSIGNAL that nothing follows was validated: it has its
\* MISSING_ARGUMENT and no INVALID_STOPSIGNAL
C21_Witness ==
    /\ pc = "returned"
    /\ \E k \in 1..Len(dockerfile.instructions) :
           /\ Dispatched(k)
           /\ getKeyword(dockerfile.instructions[k]) = STOPSIGNAL
           /\ ~HasContent(ArgumentText(k), escape)
           /\ Len(AtKeyword(result, "MISSING_ARGUMENT", k)) = 1
           /\ WithCode(result, "INVALID_STOPSIGNAL") = <<>>

\* a word without escape character starts at offset k, is followed by a
\* whitespace that does not end the text, and is one of the keywords the
\* scanner has nothing to check for
SkippedKeywordAt(k) ==
    /\ charAt(text, k) \notin {SPACE, TAB, CR, LF, "#"}
    /\ WordEnd(k) # -1
    /\ WordEnd(k) # Len(text) - 1
    /\ \A m \in k..(WordEnd(k) - 1) : charAt(text, m) # escape
    /\ toUpperCase(substring(text, k, WordEnd(k)))
           \in {MAINTAINER, FROM, EXPOSE, STOPSIGNAL, USER, WORKDIR}

\* the offset of the first real line break from k on, the escape character
\* followed by LF, CR or CRLF being a continuation; -1 when there is none
RECURSIVE RealBreak(_)
RealBreak(k) ==
    IF k >= Len(text) THEN -1
    ELSE IF charAt(text, k) = escape /\ charAt(text, k + 1) = CR /\ charAt(text, k + 2) = LF
    THEN RealBreak(k + 3)
    ELSE IF charAt(text, k) = escape /\ charAt(text, k + 1) \in {CR, LF}
    THEN RealBreak(k + 2)
    ELSE IF charAt(text, k) \in {CR, LF} THEN k
    ELSE RealBreak(k + 1)

\* C22: the scanner that recognises MAINTAINER, FROM, EXPOSE, STOPSIGNAL, USER
\* or WORKDIR reports nothing and resumes at the next real line break after
\* the keyword, LF, CR or CRLF after the escape character being no line
\* break; it returns when the text ends first.
C22_ResumesAtRealBreak ==
    [][(pc = "lineCheck" /\ i < Len(text) /\ SkippedKeywordAt(i)) =>
          /\ problems' = problems
          /\ IF RealBreak(WordEnd(i)) = -1
             THEN pc' = "return"
             ELSE pc' = "lineCheck" /\ i' = RealBreak(WordEnd(i)) + 1]_vars

\* the word VOLUME, in any case and without escape character, starts at
\* offset k and is followed by a whitespace that does not end the text
VolumeAt(k) ==
    /\ WordEnd(k) = k + 6
    /\ WordEnd(k) # Len(text) - 1
    /\ toUpperCase(substring(text, k, k + 6)) = VOLUME

\* from offset k on, blanks and continuations skipped, the first character
\* is an opening bracket
RECURSIVE BracketFirst(_)
BracketFirst(k) ==
    IF k >= Len(text) THEN FALSE
    ELSE IF charAt(text, k) = escape /\ charAt(text, k + 1) = CR /\ charAt(text, k + 2) = LF
    THEN BracketFirst(k + 3)
    ELSE IF charAt(text, k) = escape /\ charAt(text, k + 1) \in {CR, LF}
    THEN BracketFirst(k + 2)
    ELSE IF charAt(text, k) \in {SPACE, TAB} THEN BracketFirst(k + 1)
    ELSE charAt(text, k) = "["

\* C23: the scanner that recognises VOLUME looks for the form from the end
\* of the keyword on: when a real line break, be it the character after the
\* keyword, or another character comes before any bracket, nothing is
\* reported and the scan resumes at the first real line break after the
\* keyword, or ends with the text.
C23_ShellForm ==
    [][(pc = "lineCheck" /\ i < Len(text) /\ VolumeAt(i) /\ ~BracketFirst(i + 6)) =>
          /\ problems' = problems
          /\ pc' = "lineCheck"
          /\ IF RealBreak(i + 6) = -1
             THEN i' > Len(text)
             ELSE i' = RealBreak(i + 6) + 1]_vars

\* the offset of the first character from k on that is neither a blank nor
\* part of a continuation
RECURSIVE BracketOffset(_)
BracketOffset(k) ==
    IF k >= Len(text) THEN Len(text)
    ELSE IF charAt(text, k) = escape /\ charAt(text, k + 1) = CR /\ charAt(text, k + 2) = LF
    THEN BracketOffset(k + 3)
    ELSE IF charAt(text, k) = escape /\ charAt(text, k + 1) \in {CR, LF}
    THEN BracketOffset(k + 2)
    ELSE IF charAt(text, k) \in {SPACE, TAB} THEN BracketOffset(k + 1)
    ELSE k

\* the state machine of a JSON array as the specification words it, from
\* offset k on: where it stops (at a real line break, at a quote that stands
\* for a comma, or at the end of the text) and what it knows then; last is
\* the offset of the last significant character, the opening bracket at first
RECURSIVE ArrayScan(_, _)
ArrayScan(k, st) ==
    IF k >= Len(text) THEN [st EXCEPT !.kind = "eof", !.at = Len(text)]
    ELSE IF ~st.inString /\ charAt(text, k) = escape
            /\ charAt(text, k + 1) = CR /\ charAt(text, k + 2) = LF
    THEN ArrayScan(k + 3, st)
    ELSE IF ~st.inString /\ charAt(text, k) = escape /\ charAt(text, k + 1) \in {CR, LF}
    THEN ArrayScan(k + 2, st)
    ELSE IF charAt(text, k) = QUOTE
    THEN IF st.expectComma /\ ~st.flagged
         THEN [st EXCEPT !.kind = "quote", !.at = k]
         ELSE ArrayScan(k + 1, [st EXCEPT !.inString = ~st.inString, !.last = k,
                                          !.expectComma = st.inString])
    ELSE IF charAt(text, k) \in {SPACE, TAB} THEN ArrayScan(k + 1, st)
    ELSE IF charAt(text, k) = "]"
    THEN ArrayScan(k + 1, [st EXCEPT !.end = st.end \/ ~st.inString, !.last = k])
    ELSE IF charAt(text, k) \in {CR, LF} THEN [st EXCEPT !.kind = "break", !.at = k]
    ELSE IF charAt(text, k) = ","
    THEN ArrayScan(k + 1, [st EXCEPT !.expectComma = FALSE, !.last = k])
    ELSE ArrayScan(k + 1, [st EXCEPT !.last = k,
                                     !.flagged = st.flagged \/ ~st.inString])

\* the array whose bracket is at offset b, scanned
ArrayOf(b) ==
    ArrayScan(b + 1, [kind |-> "none", at |-> b, inString |-> FALSE,
                      expectComma |-> FALSE, end |-> FALSE, flagged |-> FALSE,
                      last |-> b])

\* the scanner is at a VOLUME keyword that a blank follows, and the first
\* character after the blanks and continuations is the bracket of an array
\* that stops in the given way
ArrayAt(k, kind) ==
    /\ pc = "lineCheck"
    /\ k < Len(text)
    /\ Len(problems) + 2 <= MaxProblems
    /\ VolumeAt(k)
    /\ charAt(text, k + 6) \in {SPACE, TAB}
    /\ BracketFirst(k + 7)
    /\ ArrayOf(BracketOffset(k + 7)).kind = kind

\* the UNEXPECTED_TOKEN diagnostics an iteration appends are those of the
\* given offsets, in this order
PushedTokens(offsets) ==
    /\ Len(problems') = Len(problems) + Len(offsets)
    /\ SubSeq(problems', 1, Len(problems)) = problems
    /\ \A k \in 1..Len(offsets) :
           /\ Pushed[k].code = "DEFAULT"
           /\ Pushed[k].start = offsets[k]
           /\ Pushed[k].end = offsets[k] + 1

\* the offset of the stray character an array was flagged for, if any
RECURSIVE StrayOf(_, _)
StrayOf(k, inString) ==
    IF k >= Len(text) THEN <<>>
    ELSE IF ~inString /\ charAt(text, k) = escape
            /\ charAt(text, k + 1) = CR /\ charAt(text, k + 2) = LF
    THEN StrayOf(k + 3, inString)
    ELSE IF ~inString /\ charAt(text, k) = escape /\ charAt(text, k + 1) \in {CR, LF}
    THEN StrayOf(k + 2, inString)
    ELSE IF charAt(text, k) = QUOTE THEN StrayOf(k + 1, ~inString)
    ELSE IF charAt(text, k) \in {SPACE, TAB, "]", ","} THEN StrayOf(k + 1, inString)
    ELSE IF charAt(text, k) \in {CR, LF} THEN <<>>
    ELSE IF inString THEN StrayOf(k + 1, inString)
    ELSE <<k>>

\* C24: when the array of a VOLUME stops at a real line break, an escaped
\* line break outside a string being none and one inside a string being
\* one, the scan resumes at that line break; an UNEXPECTED_TOKEN is reported
\* at the last significant character of the array exactly when no bracket
\* outside a string closed it and nothing was flagged before.
C24_LineBreak ==
    [][ArrayAt(i, "break") =>
          LET array == ArrayOf(BracketOffset(i + 7))
          IN  /\ pc' = "lineCheck"
              /\ i' = array.at + 1
              /\ IF array.flagged
                 THEN PushedTokens(StrayOf(BracketOffset(i + 7) + 1, FALSE))
                 ELSE IF array.end THEN PushedTokens(<<>>)
                 ELSE PushedTokens(<<array.last>>)]_vars

\* the same for the arrays that hold a significant character after the
\* opening bracket
LineBreakAfterSignificant ==
    [][(ArrayAt(i, "break") /\ ArrayOf(BracketOffset(i + 7)).last # BracketOffset(i + 7)) =>
          LET array == ArrayOf(BracketOffset(i + 7))
          IN  /\ pc' = "lineCheck"
              /\ i' = array.at + 1
              /\ IF array.flagged
                 THEN PushedTokens(StrayOf(BracketOffset(i + 7) + 1, FALSE))
                 ELSE IF array.end THEN PushedTokens(<<>>)
                 ELSE PushedTokens(<<array.last>>)]_vars

\* C25: when the array of a VOLUME stops at the end of the text, one
\* UNEXPECTED_TOKEN is reported at the last significant character, a
\* character after the opening bracket, when nothing was flagged before and
\* a string is open or no bracket outside a string closed the array; none is
\* reported otherwise.
C25_EndOfText ==
    [][ArrayAt(i, "eof") =>
          LET array == ArrayOf(BracketOffset(i + 7))
          IN  IF array.flagged
              THEN PushedTokens(StrayOf(BracketOffset(i + 7) + 1, FALSE))
              ELSE IF array.inString \/ ~array.end
              THEN /\ PushedTokens(<<array.last>>)
                   /\ array.last > BracketOffset(i + 7)
              ELSE PushedTokens(<<>>)]_vars

\* the same for the arrays that hold a significant character after the
\* opening bracket
EndOfTextAfterSignificant ==
    [][(ArrayAt(i, "eof") /\ ArrayOf(BracketOffset(i + 7)).last # BracketOffset(i + 7)) =>
          LET array == ArrayOf(BracketOffset(i + 7))
          IN  IF array.flagged
              THEN PushedTokens(StrayOf(BracketOffset(i + 7) + 1, FALSE))
              ELSE IF array.inString \/ ~array.end
              THEN PushedTokens(<<array.last>>)
              ELSE PushedTokens(<<>>)]_vars

\* C26: the offset handed back to the scanner after a VOLUME is greater than
\* the offset where the keyword ended, and is the offset of a line break or
\* has nothing but blanks and continuations after it up to the end of the
\* text; the scanner
\* goes forward, so that no character starts an instruction twice.
C26_ForwardJump ==
    [][(pc = "lineCheck" /\ i < Len(text) /\ VolumeAt(i)) =>
          LET jump == i' - 1
          IN  /\ pc' = "lineCheck"
              /\ jump > i + 6
              /\ i' > i
              /\ \/ charAt(text, jump) \in {CR, LF}
                 \/ BracketOffset(jump) = Len(text)
                 \/ BracketOffset(jump + 1) = Len(text)]_vars

\* the names of the enumeration ValidationCode
ValidationCodes ==
    {"DEFAULT", "LOWERCASE", "EXTRA_ARGUMENT", "NO_SOURCE_IMAGE", "MISSING_ARGUMENT",
     "INVALID_ESCAPE_DIRECTIVE", "INVALID_PORT", "INVALID_STOPSIGNAL",
     "UNKNOWN_DIRECTIVE", "UNKNOWN_INSTRUCTION", "DEPRECATED_MAINTAINER"}

\* the source, the code and the severity of a diagnostic go together
WellTagged(d) ==
    /\ d.source = "dockerfile-lsp"
    /\ d.code \in ValidationCodes
    /\ d.severity = (IF d.code = "LOWERCASE" THEN Warning
                     ELSE IF d.code = "DEPRECATED_MAINTAINER"
                     THEN (IF settings.deprecatedMaintainer = ERROR THEN Error ELSE Warning)
                     ELSE Error)
    /\ (d.message = <<"Unexpected token">>) <=> (d.code = "DEFAULT")

ClosingQuote(k) ==
    LET e == FirstIndexOf(text, k, Len(text), {QUOTE, CR, LF})
    IN  IF e # -1 /\ charAt(text, e) = QUOTE THEN e ELSE -1

\* from offset k on, blanks and continuations skipped, the line is the rest
\* of a well-formed array: strings in double quotes separated by single
\* commas, the closing bracket, and nothing after it; expect tells what may
\* come next
RECURSIVE WellFormedArray(_, _)
WellFormedArray(k, expect) ==
    LET at == BracketOffset(k)
        c == charAt(text, at)
    IN  IF expect = "nothing" THEN at >= Len(text) \/ c \in {CR, LF}
        ELSE IF at >= Len(text) THEN FALSE
        ELSE IF c = "]" /\ expect \in {"first", "comma"}
        THEN WellFormedArray(at + 1, "nothing")
        ELSE IF c = "," /\ expect = "comma" THEN WellFormedArray(at + 1, "string")
        ELSE IF c = QUOTE /\ expect \in {"first", "string"} /\ ClosingQuote(at + 1) # -1
        THEN WellFormedArray(ClosingQuote(at + 1) + 1, "comma")
        ELSE FALSE

\* C28: when the scanner has nothing to report for a VOLUME whose body starts
\* with a bracket, the body is a well-formed array; and for a body that the
\* end of the text ends, the same body ended by a line break is reported for
\* or not alike.
C28_Soundness ==
    [][(ArrayAt(i, "break") \/ ArrayAt(i, "eof") \/ ArrayAt(i, "quote")) =>
          /\ problems' = problems =>
                 WellFormedArray(BracketOffset(i + 7) + 1, "first")
          /\ ArrayAt(i, "eof") =>
                 ((lineCheck(This, keywords, escape, text \o <<LF>>, i).pushed = <<>>)
                     <=> (problems' = problems))]_vars

\* the converse: nothing is reported for a well-formed array
WellFormedIsAccepted ==
    [][(ArrayAt(i, "break") \/ ArrayAt(i, "eof") \/ ArrayAt(i, "quote")) =>
          (WellFormedArray(BracketOffset(i + 7) + 1, "first") => problems' = problems)]_vars

\* C29: getFlags computes the list of flags at most once per instruction and
\* the mutual calls of getFlags and getArguments end: after any call the
\* field flags is set and holds, in argument order, one flag per argument
\* that starts with two dashes and precedes the first argument at which
\* stopSearchingForFlags is true; a call made when the field is set leaves
\* the instruction as it is, and getFlags returns the list of the field.
FirstStop(this) ==
    LET stops == {k \in 1..Len(this.arguments) :
                     stopSearchingForFlags(this, this.arguments[k].value)}
    IN  IF stops = {} THEN Len(this.arguments) + 1
        ELSE CHOOSE k \in stops : \A m \in stops : k <= m

StartsWithDashes(a) == Len(a.value) >= 2 /\ a.value[1] = "-" /\ a.value[2] = "-"

FlagArguments(this) ==
    SelectSeq(SubSeq(this.arguments, 1, FirstStop(this) - 1), StartsWithDashes)

SourceOf(list) == [k \in 1..Len(list) |-> [value |-> list[k].value, range |-> list[k].range]]

C29_FlagsOnce ==
    [][calls' # calls =>
          LET call == calls'[Len(calls')]
              this == modifiableInstruction'
          IN  /\ this.flags.defined
              /\ SourceOf(this.flags.list) = FlagArguments(this)
              /\ modifiableInstruction.flags.defined => this = modifiableInstruction
              /\ call.method = "getFlags" => call.returned = this.flags.list]_vars

\* getFlags was called twice on an instruction that has a flag before the
\* argument the search stops at and an argument with two dashes after it
C29_Witness ==
    /\ Len(calls) = 2
    /\ calls[1].method = "getFlags" /\ calls[2].method = "getFlags"
    /\ Len(calls[2].returned) = 1
    /\ FirstStop(modifiableInstruction) = 2
    /\ Len(modifiableInstruction.arguments) = 3
    /\ StartsWithDashes(modifiableInstruction.arguments[3])

\* C30: getArguments returns the arguments of the instruction without the
\* arguments a flag was built from and with every other argument, in the
\* original order, whatever the arguments and stopSearchingForFlags are.
IsFlagged(this, a) ==
    \E k \in 1..Len(this.flags.list) : this.flags.list[k].range = a.range

WithoutFlagged(this) ==
    LET kept(a) == ~IsFlagged(this, a)
    IN  SelectSeq(this.arguments, kept)

C30_FlagsRemoved ==
    [][(calls' # calls /\ calls'[Len(calls')].method = "getArguments") =>
          calls'[Len(calls')].returned = WithoutFlagged(modifiableInstruction')]_vars

\* when the search stops at the first argument that is no flag, the flags
\* are the first arguments and getArguments returns the others
LeadingFlagsRemoved ==
    [][(calls' # calls /\ calls'[Len(calls')].method = "getArguments"
          /\ modifiableInstruction.stop = "notFlag") =>
          calls'[Len(calls')].returned = WithoutFlagged(modifiableInstruction')]_vars

\* no list of a finished call has lost a diagnostic to the bound of the model
NoProblemDropped == pc = "returned" => Len(result) < MaxProblems

====
